---------------------------- MODULE Spec2Model ----------------------------
(***************************************************************************)
(* Model of the SAP GUI automation utilities: the session broker           *)
(* (utils/sap_connection.py) and the label tree scan                       *)
(* (utils/sap_am_label_extraction.py).                                     *)
(*                                                                         *)
(* Python strings are sequences of one-character strings, so that          *)
(* str.strip() is computed and not assumed.  A COM attribute read is a     *)
(* record [ok, val]: ok = FALSE is a read that raises a COM error.         *)
(***************************************************************************)
EXTENDS Integers, Sequences, FiniteSets, TLC

VARIABLES
    idleIn, idleOut,          \* is_session_idle: the session's Info, the value returned
    lsHost, lsOut,            \* get_sap_sessions: the host application, the value returned
    \* the environment of connect_to_idle_sap
    host,                     \* the host application: [entry, conns, faultAt]
    sinfo,                    \* session -> what its Info reads give now
    extChanges,               \* number of external changes so far
    \* connect_to_idle_sap
    pc,                       \* where the call is
    sessions,                 \* the local `sessions`
    idx,                      \* 1-based position of the loop in `sessions`
    result,                   \* what the call ended with
    \* what the call did, in order
    checks,                   \* is_session_idle calls: [listing, s, res]
    fronts,                   \* bring_sap_to_front calls: [s, maximized, activated]
    nList,                    \* get_sap_sessions calls
    nLaunch,                  \* launch_sap calls
    launchOut,                \* what launch_sap gave
    firstListing,             \* the list the first get_sap_sessions returned
    \* a second call after the first
    callNo,                   \* 1 or 2
    firstResult,              \* the result of the first call
    quiet,                    \* external changes so far: "none", "in_first_call" (only before
                              \* the first call returned) or "after_first_call"
    \* find_label_by_text
    scIn,                     \* its arguments and the element graph: [session, text, max_depth, text_of, children_of]
    scanPc,                   \* where the call is
    queue,                    \* elements_to_explore: a sequence of [el, depth]
    scanResult,               \* what the call returned
    examined,                 \* the (element, depth) pairs taken from the queue, in order
    expanded,                 \* the (element, depth) pairs whose children were queued
    scanFaulted,              \* an exception reached the handler of line 43
    \* the table pipeline: what each function is given and what it gave back
    exIn, exOut,              \* extract_labels: the session's user area; [ret, log]
    fmIn, fmOut,              \* format_extracted_labels_table: [df, markers, split_instructions]; [ret, log]
    ppIn, ppOut,              \* preprocess_sap_label_data / preprocess_sap_alv_data: [variant, df, config]; the stages' tables
    xlIn, xlOut,              \* update_excel_with_sap_data: its arguments and the file; its outcome
    \* the runs
    alv,                      \* extract_sap_alv_grid: the grid, where the call is, its locals
    run                       \* the transaction template's main: the screen, where the run is, what it did

idleVars == <<idleIn, idleOut>>
listVars == <<lsHost, lsOut>>
envVars == <<host, sinfo>>
callVars == <<pc, sessions, idx, result>>
logVars == <<checks, fronts, nList, nLaunch, launchOut, firstListing>>
twiceVars == <<callNo, firstResult, quiet>>
brokerVars == <<host, sinfo, extChanges, pc, sessions, idx, result, checks, fronts,
                nList, nLaunch, launchOut, firstListing, callNo, firstResult, quiet>>

scanVars == <<scIn, scanPc, queue, scanResult, examined, expanded, scanFaulted>>

extractVars == <<exIn, exOut>>
formatVars == <<fmIn, fmOut>>
prepVars == <<ppIn, ppOut>>
excelVars == <<xlIn, xlOut>>
tableVars == <<exIn, exOut, fmIn, fmOut, ppIn, ppOut, xlIn, xlOut>>
runVars == <<alv, run>>

\* what the broker's steps leave alone
outsideBroker == <<idleVars, listVars, scanVars, tableVars, runVars>>
\* what the steps of find_label_by_text leave alone
outsideScan == <<idleVars, listVars, brokerVars, tableVars, runVars>>
\* what the table pipeline leaves alone
outsideTables == <<idleVars, listVars, brokerVars, scanVars, runVars>>

vars == <<idleIn, idleOut, lsHost, lsOut, brokerVars, scanVars, tableVars, runVars>>

----------------------------------------------------------------------------
(* Bounds of the model *)

\* longest run of whitespace put before or after a transaction code
MaxPad == 1
\* most connections the scripting engine holds in the listing model
MaxConns == 3
\* largest max_depth given to find_label_by_text
MaxDepth == 2
\* most external changes (another user or program acting on the sessions)
\* during the calls of connect_to_idle_sap
MaxExtChanges == 2

----------------------------------------------------------------------------
(* Strings *)

Whitespace == {" ", "\t"}

EmptyStr == << >>
SESSION_MANAGER == <<"S","E","S","S","I","O","N","_","M","A","N","A","G","E","R">>
SMEN == <<"S","M","E","N">>
S000 == <<"S","0","0","0">>
VA01 == <<"V","A","0","1">>
SME == <<"S","M","E">>
S_000 == <<"S"," ","0","0","0">>

\* the tuple of line 81
IdleCodes == {SESSION_MANAGER, SMEN, S000}

RECURSIVE LStrip(_)
LStrip(s) ==
    IF Len(s) > 0 /\ Head(s) \in Whitespace THEN LStrip(Tail(s)) ELSE s

RECURSIVE RStrip(_)
RStrip(s) ==
    IF Len(s) > 0 /\ s[Len(s)] \in Whitespace
    THEN RStrip(SubSeq(s, 1, Len(s) - 1))
    ELSE s

\* str.strip()
Strip(s) == RStrip(LStrip(s))

\* sequences of whitespace of length 0..n
RECURSIVE Pads(_)
Pads(n) ==
    IF n = 0 THEN {EmptyStr}
    ELSE Pads(n - 1) \cup {Append(p, w) : p \in {q \in Pads(n - 1) : Len(q) = n - 1}, w \in Whitespace}

----------------------------------------------------------------------------
(* COM attribute reads *)

Read(v) == [ok |-> TRUE, val |-> v]
Raised == [ok |-> FALSE, val |-> EmptyStr]

AnyUser == <<"u">>
AnySystem == <<"P","1">>

----------------------------------------------------------------------------
(* is_session_idle *)

\* the condition of line 81, with strip() dropped
IdleConditionNoStrip(transaction_code) ==
    Len(transaction_code) = 0 \/ transaction_code \in IdleCodes

\* line 81: not transaction_code or transaction_code.strip() in (...)
IdleCondition(transaction_code) ==
    Len(transaction_code) = 0 \/ Strip(transaction_code) \in IdleCodes

\* lines 74-90: the three reads of lines 75-77 are inside the try
IsSessionIdle(info) ==
    IF ~info.Transaction.ok \/ ~info.SystemName.ok \/ ~info.User.ok
    THEN FALSE
    ELSE IdleCondition(info.Transaction.val)

TxCores == {EmptyStr, SESSION_MANAGER, SMEN, S000, VA01, SME, S_000}

TxInputs == {l \o c \o r : l \in Pads(MaxPad), c \in TxCores, r \in Pads(MaxPad)}

InfoInputs ==
    [Transaction : {Read(t) : t \in TxInputs} \cup {Raised},
     SystemName : {Read(AnySystem), Raised},
     User : {Read(AnyUser), Raised}]

\* a function's result before and after its call
NotCalled(v) == [called |-> FALSE, val |-> v]
Returned(v) == [called |-> TRUE, val |-> v]

----------------------------------------------------------------------------
(* get_sap_sessions *)

SessionIds == {"s1", "s2", "s3"}

\* what GetObject("SAPGUI") and GetScriptingEngine give (lines 35-43)
EntryStates == {"ok", "no_gui", "no_engine", "raises"}

\* what a block of code ends with: a value, or an exception leaving it
Ret(v) == [raised |-> FALSE, val |-> v]
Exc(v) == [raised |-> TRUE, val |-> v]

\* lines 50-53: the first session of each connection that has one; a COM fault
\* at connection faultAt (0: none) leaves the loop with `sessions` as far as built
RECURSIVE Collect(_, _, _, _)
Collect(conns, i, acc, faultAt) ==
    IF i > Len(conns) THEN Ret(acc)
    ELSE IF faultAt = i THEN Exc(acc)
    ELSE Collect(conns, i + 1,
             IF Len(conns[i]) > 0 THEN Append(acc, conns[i][1]) ELSE acc, faultAt)

\* lines 35-56, the body of the try
ListBody(h) ==
    IF h.entry = "raises" THEN Exc(<< >>)
    ELSE IF h.entry \in {"no_gui", "no_engine"} THEN Ret(<< >>)
    ELSE IF Len(h.conns) = 0 THEN Ret(<< >>)
    ELSE Collect(h.conns, 1, << >>, h.faultAt)

\* a handler at line 58 that returns the sessions collected before the fault
GetSapSessionsPartial(h) == Ret(ListBody(h).val)

\* lines 34-60: the handler of line 58 returns [] for every fault
GetSapSessions(h) ==
    IF ListBody(h).raised THEN Ret(<< >>) ELSE ListBody(h)

\* a connection: the sequence of its sessions (possibly none)
ConnShapes == {<< >>} \cup {<<s>> : s \in SessionIds} \cup {<<"s1", "s2">>}

RECURSIVE ConnLists(_)
ConnLists(n) ==
    IF n = 0 THEN {<< >>}
    ELSE ConnLists(n - 1) \cup
         {Append(cs, c) : cs \in {x \in ConnLists(n - 1) : Len(x) = n - 1}, c \in ConnShapes}

HostInputs ==
    {[entry |-> e, conns |-> cs, faultAt |-> f] :
        e \in EntryStates, cs \in ConnLists(MaxConns), f \in 0..MaxConns}

----------------------------------------------------------------------------
(* find_label_by_text *)

Elements == {"wnd", "a", "b", "c"}
Root == "wnd"

TargetText == <<"T">>
PaddedTarget == <<" ", "T", "\t">>
OtherText == <<"X">>

\* an attribute of an element: it has a value, the element has no such
\* attribute (AttributeError), or reading it raises a COM error
Attr(v) == [kind |-> "value", val |-> v]
AttrAbsent == [kind |-> "absent", val |-> << >>]
AttrRaises == [kind |-> "raises", val |-> << >>]

NoId == [kind |-> "none", id |-> "-"]
PendingId == [kind |-> "pending", id |-> "-"]
FoundId(e) == [kind |-> "id", id |-> e]

Entry(e, d) == [el |-> e, depth |-> d]

\* line 33: getattr(current_element, 'Text', '').strip(); the default '' is
\* given for a missing attribute only
NormText(a) == IF a.kind = "absent" THEN Strip(EmptyStr) ELSE Strip(a.val)

\* line 31 with pop() in place of popleft()
Pop(q) == [item |-> q[Len(q)], rest |-> SubSeq(q, 1, Len(q) - 1)]

\* line 31: popleft()
PopLeft(q) == [item |-> Head(q), rest |-> Tail(q)]

\* line 37 without the depth test
ExpandsWithoutDepthTest(depth, max_depth, kids) == kids.kind # "absent"

\* line 37: depth < max_depth and hasattr(current_element, 'Children')
Expands(depth, max_depth, kids) == depth < max_depth /\ kids.kind # "absent"

\* line 38: the children with depth + 1, in order
ChildEntries(kids, depth) == [k \in 1..Len(kids.val) |-> Entry(kids.val[k], depth + 1)]

\* no call of the table pipeline is in progress
ExtractAtRest == exIn = [usr |-> "none", children |-> << >>] /\ exOut = NotCalled("none")
FormatAtRest == fmIn = "none" /\ fmOut = NotCalled("none")
PrepAtRest == ppIn = "none" /\ ppOut = NotCalled("none")
ExcelAtRest == xlIn = "none" /\ xlOut = NotCalled("none")
TablesAtRest == ExtractAtRest /\ FormatAtRest /\ PrepAtRest /\ ExcelAtRest
AlvAtRest == alv = [pc |-> "rest"]
MainAtRest == run = [pc |-> "rest"]
RunsAtRest == AlvAtRest /\ MainAtRest

ScanAtRest ==
    /\ scIn = [session |-> "none", text |-> TargetText, max_depth |-> 0,
               text_of |-> [e \in Elements |-> AttrAbsent],
               children_of |-> [e \in Elements |-> AttrAbsent]]
    /\ scanPc = "start"
    /\ queue = << >>
    /\ scanResult = PendingId
    /\ examined = << >>
    /\ expanded = {}
    /\ scanFaulted = FALSE

\* lines 22-28
ScanStarts ==
    /\ UNCHANGED outsideScan
    /\ scanPc = "start"
    /\ IF scIn.session = "none"                       \* lines 22-24
       THEN scanPc' = "done" /\ scanResult' = NoId /\ queue' = queue
                /\ scanFaulted' = FALSE
       ELSE IF scIn.session = "raises"                \* line 27 raises, line 43
       THEN scanPc' = "done" /\ scanResult' = NoId /\ queue' = queue
                /\ scanFaulted' = TRUE
       ELSE scanPc' = "loop" /\ scanResult' = scanResult
                /\ queue' = <<Entry(Root, 0)>> /\ scanFaulted' = FALSE
    /\ UNCHANGED <<scIn, examined, expanded>>

\* lines 30-38: one pass of the loop
ScanStep ==
    /\ UNCHANGED outsideScan
    /\ scanPc = "loop"
    /\ queue # << >>
    /\ LET cur == PopLeft(queue).item
           rest == PopLeft(queue).rest
           text == scIn.text_of[cur.el]
           kids == scIn.children_of[cur.el]
       IN  /\ examined' = Append(examined, cur)
           /\ IF text.kind = "raises"                 \* line 33 raises, line 43
              THEN /\ scanPc' = "done" /\ scanResult' = NoId /\ scanFaulted' = TRUE
                   /\ queue' = rest /\ expanded' = expanded
              ELSE IF NormText(text) = scIn.text       \* lines 33-35
              THEN /\ scanPc' = "done" /\ scanResult' = FoundId(cur.el)
                   /\ queue' = rest
                   /\ UNCHANGED <<expanded, scanFaulted>>
              ELSE IF ~Expands(cur.depth, scIn.max_depth, kids)
              THEN /\ queue' = rest
                   /\ UNCHANGED <<scanPc, scanResult, expanded, scanFaulted>>
              ELSE IF kids.kind = "raises"            \* line 37 or 38 raises, line 43
              THEN /\ scanPc' = "done" /\ scanResult' = NoId /\ scanFaulted' = TRUE
                   /\ queue' = rest /\ expanded' = expanded
              ELSE /\ queue' = rest \o ChildEntries(kids, cur.depth)
                   /\ expanded' = expanded \cup {cur}
                   /\ UNCHANGED <<scanPc, scanResult, scanFaulted>>
    /\ UNCHANGED scIn

\* lines 40-41: the queue is empty
ScanEnds ==
    /\ UNCHANGED outsideScan
    /\ scanPc = "loop"
    /\ queue = << >>
    /\ scanPc' = "done"
    /\ scanResult' = NoId
    /\ UNCHANGED <<scIn, queue, examined, expanded, scanFaulted>>

----------------------------------------------------------------------------
(* connect_to_idle_sap and its environment *)

\* the session a launch may open ("s1" and "s2" are open before the call)
LaunchedSession == "s3"

InfoOf(tx) == [Transaction |-> Read(tx), SystemName |-> Read(AnySystem), User |-> Read(AnyUser)]
InfoFaulting == [Transaction |-> Raised, SystemName |-> Raised, User |-> Raised]

\* what a session's Info may give: home screen, in a transaction, or the reads raise
BrokerInfos == {InfoOf(SMEN), InfoOf(VA01), InfoFaulting}

\* wnd[0] of a session: FindById/maximize work and Handle is non-zero,
\* Handle is 0, or FindById raises
WindowStates == {"ok", "no_handle", "raises"}

NoResult == [kind |-> "pending", s |-> "-"]
SessionResult(s) == [kind |-> "session", s |-> s]
NoneResult == [kind |-> "none", s |-> "-"]
RaisedResult == [kind |-> "raised", s |-> "-"]

\* lines 99-113: maximize, then SetForegroundWindow when Handle is non-zero;
\* every fault is caught at line 112
BringSapToFront(s, w) ==
    [s |-> s, window |-> w, maximized |-> (w # "raises"), activated |-> (w = "ok")]

CallAtStart ==
    /\ pc = "start"
    /\ sessions = << >>
    /\ idx = 1
    /\ result = NoResult
    /\ checks = << >>
    /\ fronts = << >>
    /\ nList = 0
    /\ nLaunch = 0
    /\ launchOut = "-"
    /\ firstListing = << >>

\* the broker's variables in the specifications that do not use them
BrokerAtRest ==
    /\ host = [entry |-> "ok", conns |-> << >>, faultAt |-> 0]
    /\ sinfo = [s \in SessionIds |-> InfoFaulting]
    /\ extChanges = 0
    /\ CallAtStart
    /\ callNo = 1
    /\ firstResult = NoResult
    /\ quiet = "none"

\* line 124 with its test inverted
AfterFirstListingInverted(ss) == IF Len(ss) = 0 THEN "loop1" ELSE "launch"

\* line 124: `if sessions:` enters the loop, an empty list goes on to line 135
AfterFirstListing(ss) == IF Len(ss) > 0 THEN "loop1" ELSE "launch"

\* line 123
ListFirst ==
    /\ UNCHANGED outsideBroker
    /\ pc = "start"
    /\ sessions' = GetSapSessions(host).val
    /\ firstListing' = sessions'
    /\ nList' = nList + 1
    /\ idx' = 1
    /\ pc' = AfterFirstListing(sessions')
    /\ UNCHANGED <<envVars, extChanges, result, checks, fronts, nLaunch, launchOut, twiceVars>>

\* the index the loops of lines 126 and 142 go to after a session that is not idle
NextIndex(i) == i + 1

\* lines 126-127: one pass of the first loop
CheckFirst ==
    /\ UNCHANGED outsideBroker
    /\ pc = "loop1"
    /\ idx <= Len(sessions)
    /\ LET s == sessions[idx]
           r == IsSessionIdle(sinfo[s])
       IN  /\ checks' = Append(checks, [listing |-> 1, s |-> s, res |-> r])
           /\ IF r THEN pc' = "info1" /\ idx' = idx
                   ELSE pc' = "loop1" /\ idx' = NextIndex(idx)
    /\ UNCHANGED <<envVars, extChanges, sessions, result, fronts, nList, nLaunch,
                   launchOut, firstListing, twiceVars>>

\* line 126 with the list exhausted: on to line 135
FirstLoopEnds ==
    /\ UNCHANGED outsideBroker
    /\ pc = "loop1"
    /\ idx > Len(sessions)
    /\ pc' = "launch"
    /\ UNCHANGED <<envVars, extChanges, sessions, idx, result, logVars, twiceVars>>

\* lines 128-129, outside any try: a fault leaves connect_to_idle_sap
ReadInfoFirst ==
    /\ UNCHANGED outsideBroker
    /\ pc = "info1"
    /\ LET i == sinfo[sessions[idx]]
       IN  IF i.User.ok /\ i.SystemName.ok
           THEN pc' = "front1" /\ result' = result
           ELSE pc' = "raised" /\ result' = RaisedResult
    /\ UNCHANGED <<envVars, extChanges, sessions, idx, logVars, twiceVars>>

\* line 132 without line 131
ReturnFirstWithoutFront ==
    /\ UNCHANGED outsideBroker
    /\ pc = "front1"
    /\ result' = SessionResult(sessions[idx])
    /\ pc' = "returned"
    /\ UNCHANGED <<envVars, extChanges, sessions, idx, logVars, twiceVars>>

\* lines 131-132
FrontFirst ==
    /\ UNCHANGED outsideBroker
    /\ pc = "front1"
    /\ \E w \in WindowStates : fronts' = Append(fronts, BringSapToFront(sessions[idx], w))
    /\ result' = SessionResult(sessions[idx])
    /\ pc' = "returned"
    /\ UNCHANGED <<envVars, extChanges, sessions, idx, checks, nList, nLaunch,
                   launchOut, firstListing, twiceVars>>

\* what launch_sap may leave behind when it returns True: saplogon.exe runs,
\* and a new session (idle or not) may have been opened on a new connection
SessionsOpen(h) ==
    UNION {{h.conns[k][j] : j \in 1..Len(h.conns[k])} : k \in 1..Len(h.conns)}

LaunchEffects ==
    {[host |-> host, sinfo |-> sinfo]} \cup
    {[host |-> [entry |-> "ok", conns |-> Append(host.conns, <<LaunchedSession>>), faultAt |-> 0],
      sinfo |-> [sinfo EXCEPT ![LaunchedSession] = i]] :
        i \in IF LaunchedSession \in SessionsOpen(host) THEN {} ELSE {InfoOf(SMEN), InfoOf(VA01)}}

\* lines 137-141 without the test of what launch_sap returned
LaunchIgnoringResult ==
    /\ UNCHANGED outsideBroker
    /\ pc = "launch"
    /\ nLaunch' = nLaunch + 1
    /\ launchOut' \in {"true", "false"}
    /\ pc' = "relist"
    /\ UNCHANGED <<envVars, extChanges, sessions, idx, result, checks, fronts, nList,
                   firstListing, twiceVars>>

\* lines 137-138 and 151-156: launch_sap returns True, returns False or raises
Launch ==
    /\ UNCHANGED outsideBroker
    /\ pc = "launch"
    /\ nLaunch' = nLaunch + 1
    /\ \/ /\ launchOut' = "true"
          /\ \E e \in LaunchEffects : host' = e.host /\ sinfo' = e.sinfo
          /\ pc' = "relist"
          /\ result' = result
       \/ /\ launchOut' = "false"               \* lines 151-153
          /\ pc' = "returned"
          /\ result' = NoneResult
          /\ UNCHANGED envVars
       \/ /\ launchOut' = "raises"              \* lines 154-156
          /\ pc' = "returned"
          /\ result' = NoneResult
          /\ UNCHANGED envVars
    /\ UNCHANGED <<extChanges, sessions, idx, checks, fronts, nList, firstListing, twiceVars>>

\* lines 140-141: after the settle interval, list again
ListSecond ==
    /\ UNCHANGED outsideBroker
    /\ pc = "relist"
    /\ sessions' = GetSapSessions(host).val
    /\ nList' = nList + 1
    /\ idx' = 1
    /\ pc' = "loop2"
    /\ UNCHANGED <<envVars, extChanges, result, checks, fronts, nLaunch, launchOut,
                   firstListing, twiceVars>>

\* lines 142-143: one pass of the second loop
CheckSecond ==
    /\ UNCHANGED outsideBroker
    /\ pc = "loop2"
    /\ idx <= Len(sessions)
    /\ LET s == sessions[idx]
           r == IsSessionIdle(sinfo[s])
       IN  /\ checks' = Append(checks, [listing |-> 2, s |-> s, res |-> r])
           /\ IF r THEN pc' = "info2" /\ idx' = idx
                   ELSE pc' = "loop2" /\ idx' = NextIndex(idx)
    /\ UNCHANGED <<envVars, extChanges, sessions, result, fronts, nList, nLaunch,
                   launchOut, firstListing, twiceVars>>

\* a second loop whose end goes back to launching
SecondLoopEndsRetrying ==
    /\ UNCHANGED outsideBroker
    /\ pc = "loop2"
    /\ idx > Len(sessions)
    /\ pc' = "launch"
    /\ UNCHANGED <<envVars, extChanges, sessions, idx, result, logVars, twiceVars>>

\* lines 149-150
SecondLoopEnds ==
    /\ UNCHANGED outsideBroker
    /\ pc = "loop2"
    /\ idx > Len(sessions)
    /\ pc' = "returned"
    /\ result' = NoneResult
    /\ UNCHANGED <<envVars, extChanges, sessions, idx, logVars, twiceVars>>

\* lines 144-145, inside the try of line 137: a fault is caught at line 154
ReadInfoSecond ==
    /\ UNCHANGED outsideBroker
    /\ pc = "info2"
    /\ LET i == sinfo[sessions[idx]]
       IN  IF i.User.ok /\ i.SystemName.ok
           THEN pc' = "front2" /\ result' = result
           ELSE pc' = "returned" /\ result' = NoneResult
    /\ UNCHANGED <<envVars, extChanges, sessions, idx, logVars, twiceVars>>

\* lines 147-148
FrontSecond ==
    /\ UNCHANGED outsideBroker
    /\ pc = "front2"
    /\ \E w \in WindowStates : fronts' = Append(fronts, BringSapToFront(sessions[idx], w))
    /\ result' = SessionResult(sessions[idx])
    /\ pc' = "returned"
    /\ UNCHANGED <<envVars, extChanges, sessions, idx, checks, nList, nLaunch,
                   launchOut, firstListing, twiceVars>>

\* the caller calls connect_to_idle_sap again (lines 160-164 are one caller)
CallAgain ==
    /\ UNCHANGED outsideBroker
    /\ pc = "returned"
    /\ callNo = 1
    /\ callNo' = 2
    /\ firstResult' = result
    /\ pc' = "start"
    /\ sessions' = << >>
    /\ idx' = 1
    /\ result' = NoResult
    /\ checks' = << >>
    /\ fronts' = << >>
    /\ nList' = 0
    /\ nLaunch' = 0
    /\ launchOut' = "-"
    /\ firstListing' = << >>
    /\ UNCHANGED <<envVars, extChanges, quiet>>

\* `quiet` after an external change: a change once the first call has returned
\* lies between the calls or in the second call
QuietAfterChange ==
    IF callNo = 1 /\ pc # "returned" /\ quiet # "after_first_call"
    THEN "in_first_call"
    ELSE "after_first_call"

\* another user or program changes what a session's Info gives
SessionChanges ==
    /\ UNCHANGED outsideBroker
    /\ pc \notin {"start", "raised"}
    /\ extChanges < MaxExtChanges
    /\ \E s \in SessionIds, i \in BrokerInfos :
          /\ sinfo[s] # i
          /\ sinfo' = [sinfo EXCEPT ![s] = i]
    /\ extChanges' = extChanges + 1
    /\ quiet' = QuietAfterChange
    /\ UNCHANGED <<host, callVars, logVars, callNo, firstResult>>

\* the host application goes away or comes back
HostChanges ==
    /\ UNCHANGED outsideBroker
    /\ pc \notin {"start", "raised"}
    /\ extChanges < MaxExtChanges
    /\ host' = [host EXCEPT !.entry = IF @ = "ok" THEN "raises" ELSE "ok"]
    /\ extChanges' = extChanges + 1
    /\ quiet' = QuietAfterChange
    /\ UNCHANGED <<sinfo, callVars, logVars, callNo, firstResult>>

InitBroker ==
    /\ host \in {[entry |-> e, conns |-> cs, faultAt |-> 0] :
                    e \in {"ok", "raises"},
                    cs \in {<< >>, <<<<"s1">>>>, <<<<"s1">>, <<"s2">>>>, <<<< >>, <<"s2">>>>}}
    /\ sinfo \in {f \in [SessionIds -> BrokerInfos] : f[LaunchedSession] = InfoFaulting}
    /\ extChanges = 0
    /\ CallAtStart
    /\ callNo = 1
    /\ firstResult = NoResult
    /\ quiet = "none"
    /\ idleIn = [Transaction |-> Raised, SystemName |-> Raised, User |-> Raised]
    /\ idleOut = NotCalled(FALSE)
    /\ lsHost = [entry |-> "ok", conns |-> << >>, faultAt |-> 0]
    /\ lsOut = NotCalled(Ret(<< >>))
    /\ ScanAtRest
    /\ TablesAtRest
    /\ RunsAtRest

NextBroker ==
    \/ ListFirst
    \/ CheckFirst
    \/ FirstLoopEnds
    \/ ReadInfoFirst
    \/ FrontFirst
    \/ Launch
    \/ ListSecond
    \/ CheckSecond
    \/ SecondLoopEnds
    \/ ReadInfoSecond
    \/ FrontSecond
    \/ CallAgain
    \/ SessionChanges
    \/ HostChanges

SpecBroker == InitBroker /\ [][NextBroker]_vars

----------------------------------------------------------------------------
(* Specification of find_label_by_text over element graphs *)

Kids(ks) == [kind |-> "value", val |-> ks]

\* the element graphs searched: trees, shared children, and malformed graphs
\* with an element below itself
ChildrenInputs ==
    [Elements -> {AttrAbsent, AttrRaises} \cup
                 {Kids(ks) : ks \in {<< >>, <<"a">>, <<"a", "b">>, <<"b">>, <<"c">>,
                                     <<"b", "c">>, <<"wnd">>}}]

TextInputs ==
    {t \in [Elements -> {Attr(TargetText), Attr(PaddedTarget), Attr(OtherText),
                         AttrAbsent, AttrRaises}] :
        /\ t["wnd"] \in {Attr(OtherText), Attr(TargetText)}
        /\ t["a"] # AttrAbsent
        /\ t["b"] \in {Attr(TargetText), Attr(OtherText), AttrRaises}
        /\ t["c"] \in {Attr(TargetText), Attr(OtherText), AttrAbsent}}

GraphInputs ==
    {k \in ChildrenInputs :
        /\ k["wnd"] \in {AttrAbsent, Kids(<<"a">>), Kids(<<"a", "b">>)}
        /\ k["a"] \in {AttrRaises, Kids(<< >>), Kids(<<"a">>), Kids(<<"b">>), Kids(<<"c">>),
                       Kids(<<"b", "c">>), Kids(<<"wnd">>)}
        /\ k["b"] \in {AttrRaises, Kids(<< >>), Kids(<<"a">>), Kids(<<"c">>)}
        /\ k["c"] \in {Kids(<< >>), Kids(<<"wnd">>)}}

InitScan ==
    /\ \/ scIn \in [session : {"ok"}, text : {TargetText}, max_depth : 0..MaxDepth,
                    text_of : TextInputs, children_of : GraphInputs]
       \/ scIn \in [session : {"none", "raises"}, text : {TargetText}, max_depth : {MaxDepth},
                    text_of : {[e \in Elements |-> Attr(TargetText)]},
                    children_of : {[e \in Elements |-> Kids(<< >>)]}]
    /\ scanPc = "start"
    /\ queue = << >>
    /\ scanResult = PendingId
    /\ examined = << >>
    /\ expanded = {}
    /\ scanFaulted = FALSE
    /\ idleIn = [Transaction |-> Raised, SystemName |-> Raised, User |-> Raised]
    /\ idleOut = NotCalled(FALSE)
    /\ lsHost = [entry |-> "ok", conns |-> << >>, faultAt |-> 0]
    /\ lsOut = NotCalled(Ret(<< >>))
    /\ BrokerAtRest
    /\ TablesAtRest
    /\ RunsAtRest

NextScan ==
    \/ ScanStarts
    \/ ScanStep
    \/ ScanEnds

SpecScan == InitScan /\ [][NextScan]_vars

\* the loop of lines 30-38 runs on as long as the queue holds an element
FairScan == SpecScan /\ WF_vars(NextScan)

----------------------------------------------------------------------------
(* Specification of is_session_idle over its inputs *)

InitIdle ==
    /\ idleIn \in InfoInputs
    /\ idleOut = NotCalled(FALSE)
    /\ lsHost = [entry |-> "ok", conns |-> << >>, faultAt |-> 0]
    /\ lsOut = NotCalled(Ret(<< >>))
    /\ BrokerAtRest
    /\ ScanAtRest
    /\ TablesAtRest
    /\ RunsAtRest

CallIsSessionIdle ==
    /\ ~idleOut.called
    /\ idleOut' = Returned(IsSessionIdle(idleIn))
    /\ UNCHANGED <<idleIn, lsHost, lsOut, brokerVars, scanVars, tableVars, runVars>>

NextIdle == CallIsSessionIdle

SpecIdle == InitIdle /\ [][NextIdle]_vars

----------------------------------------------------------------------------
(* Specification of get_sap_sessions over its inputs *)

InitList ==
    /\ lsHost \in {h \in HostInputs : h.faultAt <= Len(h.conns)}
    /\ lsOut = NotCalled(Ret(<< >>))
    /\ idleIn = [Transaction |-> Raised, SystemName |-> Raised, User |-> Raised]
    /\ idleOut = NotCalled(FALSE)
    /\ BrokerAtRest
    /\ ScanAtRest
    /\ TablesAtRest
    /\ RunsAtRest

CallGetSapSessions ==
    /\ ~lsOut.called
    /\ lsOut' = Returned(GetSapSessions(lsHost))
    /\ UNCHANGED <<idleIn, idleOut, lsHost, brokerVars, scanVars, tableVars, runVars>>

NextList == CallGetSapSessions

SpecList == InitList /\ [][NextList]_vars

----------------------------------------------------------------------------
(* Claims about is_session_idle (SpecIdle) *)

AllReadsOk(info) == info.Transaction.ok /\ info.SystemName.ok /\ info.User.ok

\* s is a sentinel with whitespace (possibly none) before and after it
IsPaddedSentinel(s) ==
    \E i \in 1..(Len(s) + 1), j \in 0..Len(s) :
        /\ i <= j
        /\ SubSeq(s, i, j) \in IdleCodes
        /\ \A k \in 1..Len(s) : (k < i \/ k > j) => s[k] \in Whitespace

----------------------------------------------------------------------------
(* Claims about get_sap_sessions (SpecList) *)

ListingFaults(h) == h.entry = "raises" \/ (h.entry = "ok" /\ h.faultAt \in 1..Len(h.conns))

\* the sessions in connection order: the first session of the k-th connection
\* that has a session, for each k
FirstSessionsInOrder(conns) ==
    LET nonEmpty == SelectSeq(conns, LAMBDA c : Len(c) > 0)
    IN  [k \in 1..Len(nonEmpty) |-> Head(nonEmpty[k])]

----------------------------------------------------------------------------
(* Claims about connect_to_idle_sap (SpecBroker) *)

ChecksOf(n) == SelectSeq(checks, LAMBDA c : c.listing = n)

NoneIdleIn(cs) == \A j \in 1..Len(cs) : ~cs[j].res

\* C1: when connect_to_idle_sap returns a session taken from its first
\* listing, is_session_idle was called on the sessions of the listing in order
\* up to that session, returned false for every earlier one and true for it,
\* and bring_sap_to_front was called on it (once, and on no other session)
\* before the return; with a working window that is maximize and activate.
C1_FirstIdleOfFirstListingFronted ==
    (pc = "returned" /\ result.kind = "session" /\ nList = 1) =>
        /\ \E i \in 1..Len(firstListing) :
              /\ firstListing[i] = result.s
              /\ Len(checks) = i
              /\ \A j \in 1..i :
                    /\ checks[j].listing = 1
                    /\ checks[j].s = firstListing[j]
                    /\ checks[j].res <=> (j = i)
        /\ Len(fronts) = 1
        /\ fronts[1].s = result.s
        /\ fronts[1].window = "ok" => (fronts[1].maximized /\ fronts[1].activated)

\* C1 witness: the second session of the first listing was returned, the first
\* one not being idle
C1_Witness ==
    /\ pc = "returned"
    /\ result.kind = "session"
    /\ nList = 1
    /\ Len(firstListing) = 2
    /\ result.s = firstListing[2]
    /\ fronts[1].activated

\* C2: in one call, launch_sap is called at most once and only after every
\* session of the first listing was reported not idle; after a launch that
\* returned true the sessions are listed once more (two listings in all, never
\* a second one otherwise) and each session of that listing is tested at most
\* once, in order, up to the first idle one; when none of them is idle the call
\* returns None with one launch and two listings.
C2_LaunchOnceRelistOnce ==
    /\ nLaunch <= 1
    /\ nLaunch = 1 =>
          /\ Len(ChecksOf(1)) = Len(firstListing)
          /\ NoneIdleIn(ChecksOf(1))
    /\ nList <= 2
    /\ nList = 2 => launchOut = "true"
    /\ (launchOut = "true" /\ pc # "relist") => nList = 2
    /\ nList = 2 =>
          /\ Len(ChecksOf(2)) <= Len(sessions)
          /\ \A j \in 1..Len(ChecksOf(2)) :
                /\ ChecksOf(2)[j].s = sessions[j]
                /\ ChecksOf(2)[j].res => j = Len(ChecksOf(2))
    /\ (pc = "returned" /\ launchOut = "true" /\ NoneIdleIn(ChecksOf(2))) =>
          /\ result = NoneResult
          /\ Len(ChecksOf(2)) = Len(sessions)
          /\ nLaunch = 1
          /\ nList = 2

\* C2 witness: after a launch that returned true, the second listing held
\* sessions, none idle, and the call returned None
C2_Witness ==
    /\ pc = "returned"
    /\ launchOut = "true"
    /\ Len(sessions) >= 2
    /\ Len(ChecksOf(2)) = Len(sessions)
    /\ NoneIdleIn(ChecksOf(2))
    /\ result = NoneResult

\* C3: when no listed session is idle (the listing may be empty) and
\* launch_sap returns false, the call returns None: it does not raise, does not
\* list the sessions again and brings no window to the front.
C3_LaunchFalseGivesNone ==
    launchOut = "false" =>
        /\ NoneIdleIn(checks)
        /\ pc = "returned"
        /\ result = NoneResult
        /\ nList = 1
        /\ fronts = << >>

\* C3 witness: launch_sap returned false after a listing of two sessions, none
\* idle, and the call ended
C3_Witness ==
    /\ launchOut = "false"
    /\ Len(firstListing) = 2
    /\ Len(checks) = 2
    /\ pc = "returned"

\* C6: connect_to_idle_sap never lets an exception reach its caller, whatever
\* faults occur in listing, in reading a session's Info, in the window calls
\* and in launch_sap.
C6_NeverRaises == pc # "raised"

\* C7 (as amended): a second call, with no external change to the sessions
\* since the first call began and the session the first call returned still
\* idle, launches nothing, does not raise and returns that same session.
C7_SecondCallSameSession ==
    (/\ callNo = 2
     /\ quiet = "none"
     /\ firstResult.kind = "session"
     /\ IsSessionIdle(sinfo[firstResult.s])) =>
        /\ nLaunch = 0
        /\ pc # "raised"
        /\ pc = "returned" => result = firstResult

\* C7 witness: the first call returned the session its launch opened, and the
\* second call, nothing having changed, returned it again
C7_Witness ==
    /\ callNo = 2
    /\ quiet = "none"
    /\ pc = "returned"
    /\ firstResult = SessionResult(LaunchedSession)
    /\ result = firstResult

\* C7 (original): a second call, with no external change between the calls
\* and the session the first call returned still idle, launches nothing and
\* returns that same session.
C7_SameSessionIfQuietBetweenCalls ==
    (/\ callNo = 2
     /\ quiet # "after_first_call"
     /\ firstResult.kind = "session"
     /\ IsSessionIdle(sinfo[firstResult.s])) =>
        /\ nLaunch = 0
        /\ pc = "returned" => result = firstResult

----------------------------------------------------------------------------
(* Claims about find_label_by_text (SpecScan) *)

ChildList(g, e) == IF g[e].kind = "value" THEN g[e].val ELSE << >>

RECURSIVE ChildrenOfAll(_, _)
ChildrenOfAll(g, es) ==
    IF es = << >> THEN << >> ELSE ChildList(g, Head(es)) \o ChildrenOfAll(g, Tail(es))

\* the elements at depth d below the root, left to right, one entry per path
RECURSIVE Level(_, _)
Level(g, d) == IF d = 0 THEN <<Root>> ELSE ChildrenOfAll(g, Level(g, d - 1))

\* breadth-first order down to depth d: level 0, then level 1, ...
RECURSIVE BreadthFirst(_, _)
BreadthFirst(g, d) ==
    IF d = 0 THEN Level(g, 0) ELSE BreadthFirst(g, d - 1) \o Level(g, d)

InLevel(g, e, d) == \E k \in 1..Len(Level(g, d)) : Level(g, d)[k] = e

\* the element's text can be read and, trimmed, equals the searched text
TextMatches(e) ==
    /\ scIn.text_of[e].kind # "raises"
    /\ NormText(scIn.text_of[e]) = scIn.text

ScanOrder == BreadthFirst(scIn.children_of, scIn.max_depth)

Hits == {k \in 1..Len(ScanOrder) : TextMatches(ScanOrder[k])}

FirstHit == ScanOrder[CHOOSE k \in Hits : \A m \in Hits : k <= m]

\* C8: find_label_by_text returns the identifier of the first element in
\* breadth-first order, down to depth max_depth, whose trimmed text equals the
\* searched text, so that no matching element within max_depth lies at a
\* smaller depth, and it returns none iff no element within max_depth matches.
C8_FirstMatchAndNoneIffNoMatch ==
    (scanPc = "done" /\ scIn.session = "ok") =>
        /\ scanResult.kind = "id" =>
              /\ Hits # {}
              /\ scanResult.id = FirstHit
        /\ scanResult.kind = "none" <=> Hits = {}

\* C8, restricted to the calls in which no attribute read raised: the first
\* match in breadth-first order is returned, no match lies at a smaller depth,
\* and none is returned iff no element within max_depth matches.
C8_FirstBreadthFirstMatch ==
    (scanPc = "done" /\ scIn.session = "ok") =>
        /\ scanResult.kind = "id" =>
              /\ Hits # {}
              /\ scanResult.id = FirstHit
              /\ \A d \in 0..scIn.max_depth, e \in Elements :
                    (InLevel(scIn.children_of, e, d) /\ TextMatches(e)) =>
                        \E d2 \in 0..d : InLevel(scIn.children_of, scanResult.id, d2)
        /\ ~scanFaulted => (scanResult.kind = "none" <=> Hits = {})

\* C8 witness: two elements match, "c" at depth 2 before "b" at depth 1 in the
\* children lists' depth-first order, and the shallower "b" was returned
C8_Witness ==
    /\ scanPc = "done"
    /\ scIn.session = "ok"
    /\ scIn.max_depth = 2
    /\ scIn.children_of["wnd"] = Kids(<<"a", "b">>)
    /\ scIn.children_of["a"] = Kids(<<"c">>)
    /\ scIn.text_of["c"] = Attr(TargetText)
    /\ scIn.text_of["b"] = Attr(TargetText)
    /\ scanResult = FoundId("b")

\* no element is taken from the queue at a depth above max_depth, no element
\* at depth max_depth has its children queued, and the number of elements taken
\* from the queue never exceeds the number of paths of length <= max_depth from
\* the root
ScanDepthBounded ==
    /\ \A k \in 1..Len(examined) : examined[k].depth <= scIn.max_depth
    /\ \A k \in 1..Len(queue) : queue[k].depth <= scIn.max_depth
    /\ \A x \in expanded : x.depth < scIn.max_depth
    /\ Len(examined) <= Len(ScanOrder)

\* C9: find_label_by_text returns on every element graph, cyclic ones
\* included, and all along it examines no element at a depth above max_depth
\* and queues the children of no element at depth max_depth.
C9_DepthBoundedScanTerminates == []ScanDepthBounded /\ <>(scanPc = "done")

\* C9 witness: a graph in which "a" is its own child was searched to the end
\* without a match, "a" having been examined at depths 1 and 2
C9_Witness ==
    /\ scanPc = "done"
    /\ scanResult = NoId
    /\ ~scanFaulted
    /\ scIn.children_of["a"] = Kids(<<"a">>)
    /\ \E j, k \in 1..Len(examined) :
          /\ examined[j] = Entry("a", 1)
          /\ examined[k] = Entry("a", scIn.max_depth)
          /\ j < k

\* C10: a fault while reading an element's attribute counts as the attribute
\* being absent, and a fault while enumerating an element's children drops
\* that subtree only: a matching element within the depth limit that is
\* reached outside the faulting subtree is still found and returned.
C10_FaultsContained ==
    (scanPc = "done" /\ scIn.session = "ok" /\ Hits # {}) =>
        /\ scanResult.kind = "id"
        /\ TextMatches(scanResult.id)

----------------------------------------------------------------------------
(* Tables (pandas DataFrames) *)

\* a cell value or a label: missing (NaN, NaT, pd.NA or a None cell), text, an
\* integer, or a decimal number n / 10^d; the same fields in every value, so
\* that any two values can be compared
NaN == [t |-> "nan", s |-> << >>, n |-> 0, d |-> 0]
StrV(x) == [t |-> "str", s |-> x, n |-> 0, d |-> 0]
IntV(k) == [t |-> "int", s |-> << >>, n |-> k, d |-> 0]

\* a DataFrame: its column labels, its index labels, its rows of cells
Frame(cols, ix, rows) == [columns |-> cols, index |-> ix, data |-> rows]
NoDf == Frame(<< >>, << >>, << >>)

\* the ascending sequence of a set of integers
RECURSIVE SortedSeq(_)
SortedSeq(set) ==
    IF set = {} THEN << >>
    ELSE LET m == CHOOSE x \in set : \A y \in set : x <= y
         IN <<m>> \o SortedSeq(set \ {m})

----------------------------------------------------------------------------
(* More of Python's str *)

Digits == <<"0", "1", "2", "3", "4", "5", "6", "7", "8", "9">>
IsDigit(c) == \E i \in 1..Len(Digits) : Digits[i] = c
DigitVal(c) == (CHOOSE i \in 1..Len(Digits) : Digits[i] = c) - 1

RECURSIVE DigitsValue(_)
DigitsValue(s) ==
    IF Len(s) = 0 THEN 0
    ELSE 10 * DigitsValue(SubSeq(s, 1, Len(s) - 1)) + DigitVal(s[Len(s)])

\* sub in s
Contains(s, sub) ==
    \E i \in 1..(Len(s) - Len(sub) + 1) : SubSeq(s, i, i + Len(sub) - 1) = sub

\* s.split(d) for a one-character d
RECURSIVE SplitOn(_, _)
SplitOn(s, d) ==
    IF \A i \in 1..Len(s) : s[i] # d THEN <<s>>
    ELSE LET i == CHOOSE j \in 1..Len(s) : s[j] = d /\ \A k \in 1..(j - 1) : s[k] # d
         IN <<SubSeq(s, 1, i - 1)>> \o SplitOn(SubSeq(s, i + 1, Len(s)), d)

\* s.strip(chars)
RECURSIVE StripChars(_, _)
StripChars(s, chars) ==
    IF Len(s) > 0 /\ s[1] \in chars THEN StripChars(Tail(s), chars)
    ELSE IF Len(s) > 0 /\ s[Len(s)] \in chars THEN StripChars(SubSeq(s, 1, Len(s) - 1), chars)
    ELSE s

\* int(text): surrounding whitespace and one sign are accepted, then decimal
\* digits only; anything else is a ValueError
ParseInt(text) ==
    LET t == Strip(text)
        signed == Len(t) > 0 /\ t[1] \in {"+", "-"}
        body == IF signed THEN Tail(t) ELSE t
    IN IF Len(body) > 0 /\ \A i \in 1..Len(body) : IsDigit(body[i])
       THEN Ret(IF signed /\ t[1] = "-" THEN 0 - DigitsValue(body) ELSE DigitsValue(body))
       ELSE Exc(0)

----------------------------------------------------------------------------
(* extract_text and extract_labels *)

\* line 27
possible_attributes == <<"Text", "Tooltip", "Value", "Caption", "Description">>
\* line 36
NO_TEXT == <<"<", "N", "o", " ", "T", "e", "x", "t", " ", "F", "o", "u", "n", "d", ">">>
\* line 58
lbl == <<"l", "b", "l">>

\* lines 28-36 from the k-th attribute on: an attribute that is missing, whose
\* read raises, or whose text strips to nothing, is passed over
RECURSIVE ExtractTextFrom(_, _)
ExtractTextFrom(element, k) ==
    IF k > Len(possible_attributes) THEN NO_TEXT
    ELSE LET a == element.attrs[possible_attributes[k]]
         IN IF a.kind = "value" /\ Len(Strip(a.val)) > 0
            THEN Strip(a.val)
            ELSE ExtractTextFrom(element, k + 1)

ExtractText(element) == ExtractTextFrom(element, 1)

LabelCell(r, c, text) == [Row |-> r, Column |-> c, Text |-> text]

\* lines 58-69 for one child: the cells appended (one or none), or the
\* ValueError of int() leaving the loop
LabelOf(child) ==
    IF ~Contains(child.Id, lbl) THEN Ret(<< >>)
    ELSE LET text == ExtractText(child)
         IN IF Len(text) = 0 \/ text = NO_TEXT THEN Ret(<< >>)
            ELSE LET pieces == SplitOn(child.Id, "[")
                     parts == SplitOn(pieces[Len(pieces)], ",")
                 IN IF Len(parts) = 2
                    THEN LET col_number == ParseInt(parts[1])
                             row_number == ParseInt(StripChars(parts[2], {"]"}))
                         IN IF col_number.raised \/ row_number.raised
                            THEN Exc(<< >>)
                            ELSE Ret(<<LabelCell(row_number.val, col_number.val, text)>>)
                    ELSE Ret(<<LabelCell(-1, -1, text)>>)

\* lines 55-69: label_data after the loop, or as far as built when int() raised
RECURSIVE LabelData(_, _)
LabelData(children, acc) ==
    IF Len(children) = 0 THEN Ret(acc)
    ELSE LET c == LabelOf(Head(children))
         IN IF c.raised THEN Exc(acc) ELSE LabelData(Tail(children), acc \o c.val)

\* line 72 with the test dropped
LabelFrameNeverEmpty(label_data) == FALSE

\* lines 71-72: pd.DataFrame(label_data).empty
LabelFrameEmpty(label_data) == Len(label_data) = 0

\* line 77 with a pivot that keeps the last of the cells of a position
PivotOverwrites(label_data) == FALSE

\* line 77: DataFrame.pivot raises ValueError when two entries have the same
\* (index, column) pair
PivotRaises(label_data) ==
    \E i, j \in 1..Len(label_data) :
        /\ i # j
        /\ label_data[i].Row = label_data[j].Row
        /\ label_data[i].Column = label_data[j].Column

\* line 77: pivot(index='Row', columns='Column', values='Text').sort_index().reset_index()
Pivot(label_data) ==
    LET at == 1..Len(label_data)
        rows == SortedSeq({label_data[i].Row : i \in at})
        cols == SortedSeq({label_data[i].Column : i \in at})
        Here(r, c) == {i \in at : label_data[i].Row = r /\ label_data[i].Column = c}
        CellAt(r, c) ==
            IF Here(r, c) = {} THEN NaN
            ELSE StrV(label_data[CHOOSE i \in Here(r, c) : \A j \in Here(r, c) : j <= i].Text)
    IN Frame(<<StrV(<<"R", "o", "w">>)>> \o [k \in 1..Len(cols) |-> IntV(cols[k])],
             [k \in 1..Len(rows) |-> IntV(k - 1)],
             [k \in 1..Len(rows) |->
                 <<IntV(rows[k])>> \o [j \in 1..Len(cols) |-> CellAt(rows[k], cols[j])]])

\* what extract_labels ends with: the value returned (none, or df), the level
\* of its log line, and label_data as it stood
Extracted(isNone, frame, level, cells) ==
    [none |-> isNone, df |-> frame, log |-> level, label_data |-> cells]

\* lines 53-82
ExtractLabels(inp) ==
    IF inp.usr # "ok" THEN Extracted(TRUE, NoDf, "error", << >>)
    ELSE LET ld == LabelData(inp.children, << >>)
         IN IF ld.raised THEN Extracted(TRUE, NoDf, "error", ld.val)
            ELSE IF LabelFrameEmpty(ld.val) THEN Extracted(TRUE, NoDf, "warning", ld.val)
            ELSE IF PivotRaises(ld.val) THEN Extracted(TRUE, NoDf, "error", ld.val)
            ELSE Extracted(FALSE, Pivot(ld.val), "info", ld.val)

----------------------------------------------------------------------------
(* Specification of extract_labels over user areas *)

\* most children of the user area
MaxChildren == 2

UsrPath == <<"w", "n", "d", "[", "0", "]", "/", "u", "s", "r", "/">>

\* identifiers of children: labels with a well-formed, a malformed or no
\* coordinate suffix, and an element that is not a label
IdInputs ==
    {UsrPath \o lbl \o suffix : suffix \in
        {<<"[", "0", ",", "3", "]">>, <<"[", "1", ",", "3", "]">>, <<"[", "0", ",", "5", "]">>,
         <<"[", "x", ",", "y", "]">>, <<"[", "3", "]">>, << >>,
         <<"[", "1", ",", "2", ",", "3", "]">>}}
    \cup {UsrPath \o <<"t", "x", "t", "[", "0", ",", "3", "]">>}

AttrNames == {possible_attributes[k] : k \in 1..Len(possible_attributes)}
OnlyText(a) == [name \in AttrNames |-> IF name = "Text" THEN a ELSE AttrAbsent]

AttrInputs ==
    {OnlyText(Attr(<<"Q", "t", "y">>)), OnlyText(Attr(<<" ", "1", "0", " ">>)),
     OnlyText(Attr(<<" ">>)), OnlyText(AttrRaises),
     [OnlyText(Attr(EmptyStr)) EXCEPT !["Tooltip"] = Attr(<<"t", "i", "p">>)]}

ChildInputs == [Id : IdInputs, attrs : AttrInputs]

RECURSIVE SeqsUpTo(_, _)
SeqsUpTo(set, n) ==
    IF n = 0 THEN {<< >>}
    ELSE SeqsUpTo(set, n - 1) \cup
         {Append(q, x) : q \in {p \in SeqsUpTo(set, n - 1) : Len(p) = n - 1}, x \in set}

UsrInputs ==
    {[usr |-> "ok", children |-> cs] : cs \in SeqsUpTo(ChildInputs, MaxChildren)}
    \cup {[usr |-> "raises", children |-> << >>]}

\* the session utilities are not in use
UtilsAtRest ==
    /\ idleIn = [Transaction |-> Raised, SystemName |-> Raised, User |-> Raised]
    /\ idleOut = NotCalled(FALSE)
    /\ lsHost = [entry |-> "ok", conns |-> << >>, faultAt |-> 0]
    /\ lsOut = NotCalled(Ret(<< >>))
    /\ BrokerAtRest
    /\ ScanAtRest

InitExtract ==
    /\ exIn \in UsrInputs
    /\ exOut = NotCalled("none")
    /\ FormatAtRest
    /\ PrepAtRest
    /\ ExcelAtRest
    /\ UtilsAtRest
    /\ RunsAtRest

CallExtractLabels ==
    /\ ~exOut.called
    /\ exOut' = Returned(ExtractLabels(exIn))
    /\ UNCHANGED <<exIn, formatVars, prepVars, excelVars, outsideTables>>

NextExtract == CallExtractLabels

SpecExtract == InitExtract /\ [][NextExtract]_vars

----------------------------------------------------------------------------
(* Claims about extract_labels (SpecExtract) *)

\* text is a decimal integer, with or without a minus sign
IsIntText(text) ==
    LET body == IF Len(text) > 0 /\ text[1] = "-" THEN Tail(text) ELSE text
    IN Len(body) > 0 /\ \A i \in 1..Len(body) : IsDigit(body[i])

IntOfText(text) ==
    IF text[1] = "-" THEN 0 - DigitsValue(Tail(text)) ELSE DigitsValue(text)

\* the places of "[" and "," of a trailing [a,b] with a and b integers
SuffixPlaces(id) ==
    {p \in (1..Len(id)) \X (1..Len(id)) :
        /\ p[1] < p[2]
        /\ id[p[1]] = "["
        /\ id[p[2]] = ","
        /\ id[Len(id)] = "]"
        /\ IsIntText(SubSeq(id, p[1] + 1, p[2] - 1))
        /\ IsIntText(SubSeq(id, p[2] + 1, Len(id) - 1))}

WellFormedSuffix(id) == SuffixPlaces(id) # {}

\* a label child with usable text
YieldsLabel(child) ==
    /\ Contains(child.Id, lbl)
    /\ ExtractText(child) # EmptyStr
    /\ ExtractText(child) # NO_TEXT

\* the cell the claim gives a label child
ClaimedCell(child) ==
    IF WellFormedSuffix(child.Id)
    THEN LET p == CHOOSE q \in SuffixPlaces(child.Id) : TRUE
         IN LabelCell(IntOfText(SubSeq(child.Id, p[2] + 1, Len(child.Id) - 1)),
                      IntOfText(SubSeq(child.Id, p[1] + 1, p[2] - 1)),
                      ExtractText(child))
    ELSE LabelCell(-1, -1, ExtractText(child))

RECURSIVE ClaimedCells(_)
ClaimedCells(children) ==
    IF Len(children) = 0 THEN << >>
    ELSE (IF YieldsLabel(Head(children)) THEN <<ClaimedCell(Head(children))>> ELSE << >>)
         \o ClaimedCells(Tail(children))

\* two cells of the list have the same (row, column)
Collides(cells) ==
    \E i, j \in 1..Len(cells) :
        i # j /\ cells[i].Row = cells[j].Row /\ cells[i].Column = cells[j].Column

\* C11: every label child with usable text is recorded as one label cell, with
\* column a and row b when its identifier ends in a well-formed [a,b] and with
\* column -1 and row -1 otherwise (a two-part suffix whose parts are not
\* integers included), and a malformed suffix does not make the extraction fail
C11_EveryLabelChildRecorded ==
    (exOut.called /\ exIn.usr = "ok") =>
        /\ exOut.val.label_data = ClaimedCells(exIn.children)
        /\ ~Collides(ClaimedCells(exIn.children)) => exOut.val.log # "error"

\* the part of C11 that holds: as long as int() does not raise, the cells
\* recorded are the claimed ones
C11_RecordedUnlessIntRaises ==
    (exOut.called /\ exIn.usr = "ok" /\ ~LabelData(exIn.children, << >>).raised) =>
        exOut.val.label_data = ClaimedCells(exIn.children)

\* C12: whenever two label cells have the same (row, column), extract_labels
\* logs an error and returns no table; in a table it returns, every label cell
\* is at its (row, column), and every filled position holds the text of
\* exactly one label cell
C12_PivotInjective ==
    exOut.called =>
        LET cells == exOut.val.label_data
            df == exOut.val.df
            At(r, c) == {i \in 1..Len(cells) :
                            /\ df.data[r][1] = IntV(cells[i].Row)
                            /\ df.columns[c] = IntV(cells[i].Column)}
        IN /\ Collides(cells) => (exOut.val.none /\ exOut.val.log = "error")
           /\ ~exOut.val.none =>
                /\ \A i \in 1..Len(cells) :
                      \E r \in 1..Len(df.data), c \in 2..Len(df.columns) : i \in At(r, c)
                /\ \A r \in 1..Len(df.data), c \in 2..Len(df.columns) :
                      IF df.data[r][c] = NaN THEN At(r, c) = {}
                      ELSE /\ Cardinality(At(r, c)) = 1
                           /\ \A i \in At(r, c) : df.data[r][c] = StrV(cells[i].Text)

\* two label cells with well-formed coordinates and different texts collided
C12_Witness ==
    /\ exOut.called
    /\ \E i, j \in 1..Len(exOut.val.label_data) :
          /\ i # j
          /\ exOut.val.label_data[i].Row = exOut.val.label_data[j].Row
          /\ exOut.val.label_data[i].Column = exOut.val.label_data[j].Column
          /\ exOut.val.label_data[i].Row >= 0
          /\ exOut.val.label_data[i].Text # exOut.val.label_data[j].Text
    /\ exOut.val.none

\* C13: when no child of the container yields a label cell, extract_labels
\* returns None with the "No labels found." warning, not a table; it never
\* returns a table without rows
C13_NoLabelsGivesNoData ==
    exOut.called =>
        /\ (exIn.usr = "ok" /\ \A k \in 1..Len(exIn.children) : ~YieldsLabel(exIn.children[k])) =>
              (exOut.val.none /\ exOut.val.log = "warning" /\ exOut.val.df = NoDf)
        /\ ~exOut.val.none => Len(exOut.val.df.data) > 0

\* the container had label children, none with usable text
C13_Witness ==
    /\ exOut.called
    /\ exIn.usr = "ok"
    /\ Len(exIn.children) = 2
    /\ \A k \in 1..Len(exIn.children) :
          Contains(exIn.children[k].Id, lbl) /\ ~YieldsLabel(exIn.children[k])
    /\ exOut.val.none
    /\ exOut.val.log = "warning"

----------------------------------------------------------------------------
(* format_extracted_labels_table *)

\* Python's None as an argument
NoneV == [t |-> "none", s |-> << >>, n |-> 0, d |-> 0]

\* an Optional[DataFrame]
SomeDf(frame) == [none |-> FALSE, df |-> frame]
NoneDf == [none |-> TRUE, df |-> NoDf]

\* DataFrame.empty: no row or no column
FrameEmpty(frame) == Len(frame.data) = 0 \/ Len(frame.columns) = 0

\* where the slice [start:] of a sequence of n items begins (0-based)
PySliceStart(start, n) ==
    IF start.t = "none" THEN 0
    ELSE IF start.n < 0 THEN (IF n + start.n < 0 THEN 0 ELSE n + start.n)
    ELSE IF start.n > n THEN n ELSE start.n

\* lines 49 and 58: df[df['Row'] >= first_row].set_index('Row').iloc[:, header_col:].dropna(how='all')
\* for an integer first_row; 'Row' is the first column of df
Region(df, first_row, header_col) ==
    LET from == 2 + PySliceStart(header_col, Len(df.columns) - 1)
        Cut(row) == SubSeq(row, from, Len(row))
        Keep(row) == row[1].n >= first_row.n /\ \E c \in from..Len(row) : row[c] # NaN
        kept == SelectSeq(df.data, Keep)
    IN Frame(Cut(df.columns),
             [k \in 1..Len(kept) |-> kept[k][1]],
             [k \in 1..Len(kept) |-> Cut(kept[k])])

\* s.split(sep) for a non-empty sep
RECURSIVE SplitStr(_, _)
SplitStr(s, sep) ==
    IF ~Contains(s, sep) THEN <<s>>
    ELSE LET i == CHOOSE j \in 1..Len(s) :
                    /\ SubSeq(s, j, j + Len(sep) - 1) = sep
                    /\ \A k \in 1..(j - 1) : SubSeq(s, k, k + Len(sep) - 1) # sep
         IN <<SubSeq(s, 1, i - 1)>> \o SplitStr(SubSeq(s, i + Len(sep), Len(s)), sep)

\* s.split(): the runs of characters between runs of whitespace
RECURSIVE SplitWhitespace(_)
SplitWhitespace(s) ==
    LET t == LStrip(s)
    IN IF Len(t) = 0 THEN << >>
       ELSE IF \A i \in 1..Len(t) : t[i] \notin Whitespace THEN <<t>>
       ELSE LET i == CHOOSE j \in 1..Len(t) :
                       t[j] \in Whitespace /\ \A k \in 1..(j - 1) : t[k] \notin Whitespace
            IN <<SubSeq(t, 1, i - 1)>> \o SplitWhitespace(SubSeq(t, i + 1, Len(t)))

\* str(value) of a cell, as astype(str) gives it
AsText(v) ==
    IF v.t = "str" THEN v.s
    ELSE IF v.t = "nan" THEN <<"n", "a", "n">>
    ELSE <<"N", "o", "n", "e">>

\* line 69: `not value`
Falsy(v) == v = NoneV \/ v = StrV(EmptyStr)

\* the positions of a label among the columns
PlacesOf(label, columns) == {k \in 1..Len(columns) : columns[k] = label}

\* a sequence without its k-th item
Without(q, k) == SubSeq(q, 1, k - 1) \o SubSeq(q, k + 1, Len(q))

\* the longest of a sequence of sequences
Widest(parts) ==
    IF Len(parts) = 0 THEN 0
    ELSE LET k == CHOOSE i \in 1..Len(parts) : \A j \in 1..Len(parts) : Len(parts[j]) <= Len(parts[i])
         IN Len(parts[k])

\* line 94: DataFrame.join raises ValueError when a column of the right frame
\* has the name of a column of the left one
JoinRaises(columns, new_names) ==
    \E k \in 1..Len(new_names) : PlacesOf(StrV(new_names[k]), columns) # {}

\* lines 64-94 for one instruction: table_data after it, or the exception
\* that leaves the loop; the two new names differ in every input
SplitColumn(table_data, instruction) ==
    LET split_col == instruction.split_col
        new_col_names == instruction.new_col_names
        col_name_delimiter == instruction.col_name_delimiter
        value_delimiter == instruction.value_delimiter
    IN IF Falsy(split_col) \/ Falsy(new_col_names) \/ col_name_delimiter = NoneV
       THEN Ret(table_data)
       ELSE IF PlacesOf(split_col, table_data.columns) = {} THEN Ret(table_data)
       ELSE IF col_name_delimiter.s = EmptyStr THEN Exc(table_data)
       ELSE LET new_names == SplitStr(new_col_names.s, col_name_delimiter.s)
            IN IF Len(new_names) # 2 THEN Ret(table_data)
               ELSE IF Cardinality(PlacesOf(split_col, table_data.columns)) > 1 \/ value_delimiter = StrV(EmptyStr)
               THEN Exc(table_data)
               ELSE LET at == CHOOSE k \in PlacesOf(split_col, table_data.columns) : TRUE
                        parts == [r \in 1..Len(table_data.data) |->
                                    IF value_delimiter = NoneV
                                    THEN SplitWhitespace(AsText(table_data.data[r][at]))
                                    ELSE SplitStr(AsText(table_data.data[r][at]), value_delimiter.s)]
                        Part(r, k) == IF k <= Len(parts[r]) THEN StrV(parts[r][k]) ELSE NaN
                        rest == Without(table_data.columns, at)
                    IN IF Widest(parts) # 2 THEN Ret(table_data)
                       ELSE IF JoinRaises(rest, new_names) THEN Exc(table_data)
                       ELSE Ret(Frame(rest \o <<StrV(new_names[1]), StrV(new_names[2])>>,
                                      table_data.index,
                                      [r \in 1..Len(table_data.data) |->
                                          Without(table_data.data[r], at) \o <<Part(r, 1), Part(r, 2)>>]))

\* lines 62-94: the instructions in order
RECURSIVE SplitColumns(_, _)
SplitColumns(table_data, split_instructions) ==
    IF Len(split_instructions) = 0 THEN Ret(table_data)
    ELSE LET one == SplitColumn(table_data, Head(split_instructions))
         IN IF one.raised THEN one ELSE SplitColumns(one.val, Tail(split_instructions))

\* what format_extracted_labels_table ends with: the value returned (none, or
\* df), the level of its last log line, and the 'Row' of the row it took as
\* the column names
Formatted(isNone, frame, level, header) ==
    [none |-> isNone, df |-> frame, log |-> level, header_at |-> header]

\* lines 36-101; the title of lines 42-46 is computed and dropped, and so is
\* headers[1:] of line 52: table_data is taken from df again, from data_row on
FormatExtractedLabelsTable(df, m, split_instructions) ==
    IF df.none \/ FrameEmpty(df.df) THEN Formatted(TRUE, NoDf, "error", NoneV)
    ELSE IF m.header_row.t # "int" THEN Formatted(TRUE, NoDf, "error", NoneV)
    ELSE LET headers == Region(df.df, m.header_row, m.header_col)
         IN IF FrameEmpty(headers) THEN Formatted(TRUE, NoDf, "error", NoneV)
            ELSE IF m.data_row.t # "int" THEN Formatted(TRUE, NoDf, "error", headers.index[1])
            ELSE LET table_data == [Region(df.df, m.data_row, m.header_col)
                                        EXCEPT !.columns = headers.data[1]]
                     split == SplitColumns(table_data, split_instructions)
                 IN IF split.raised THEN Formatted(TRUE, NoDf, "error", headers.index[1])
                    ELSE IF FrameEmpty(split.val) THEN Formatted(TRUE, NoDf, "info", headers.index[1])
                    ELSE Formatted(FALSE, split.val, "info", headers.index[1])

----------------------------------------------------------------------------
(* Specification of format_extracted_labels_table over pivoted tables *)

\* most split instructions given to a call
MaxInstructions == 2

Qty == <<"Q", "t", "y">>
Price == <<"P", "r", "i", "c", "e">>
Ten == <<"1", "0">>
Hundred == <<"1", "0", "0">>
ColA == <<"A">>
ColB == <<"B">>

\* label cells of screens: a header row and a data row; a title, a header
\* row and two data rows whose first column holds two words; the same with a
\* data row of one word
QtyPriceCells ==
    <<LabelCell(3, 0, Qty), LabelCell(3, 1, Price), LabelCell(5, 0, Ten), LabelCell(5, 1, Hundred)>>
TitledCells ==
    <<LabelCell(1, 0, <<"T">>), LabelCell(3, 0, ColA), LabelCell(3, 1, ColB),
      LabelCell(4, 0, <<"1", " ", "2">>), LabelCell(4, 1, <<"x">>),
      LabelCell(5, 0, <<"3", " ", " ", "4">>), LabelCell(5, 1, <<"y">>)>>
MixedCells ==
    <<LabelCell(3, 0, ColA), LabelCell(3, 1, ColB),
      LabelCell(4, 0, <<"1", " ", "2">>), LabelCell(4, 1, <<"x">>),
      LabelCell(5, 0, <<"3">>)>>

PivotedInputs ==
    {SomeDf(Pivot(cells)) : cells \in {QtyPriceCells, TitledCells, MixedCells}} \cup {NoneDf}

MarkerInputs ==
    [title_row : {NoneV}, title_col : {NoneV},
     header_row : {NoneV, IntV(3), IntV(4)},
     header_col : {NoneV, IntV(0), IntV(1), IntV(-1)},
     data_row : {NoneV, IntV(3), IntV(4), IntV(6)}]

Instruction(col, names, name_delimiter, delimiter) ==
    [split_col |-> col, new_col_names |-> names,
     col_name_delimiter |-> name_delimiter, value_delimiter |-> delimiter]

Comma == StrV(<<",">>)

\* a split that works on column A, one on a column whose values are one word,
\* one whose second name is the column B, an incomplete one, one for a column
\* that does not exist, one with a single new name, one with an empty name
\* delimiter, one that splits A at each blank
InstructionInputs ==
    {Instruction(StrV(ColA), StrV(<<"P", ",", "Q">>), Comma, NoneV),
     Instruction(StrV(ColB), StrV(<<"U", ",", "V">>), Comma, NoneV),
     Instruction(StrV(ColA), StrV(<<"C", ",", "B">>), Comma, NoneV),
     Instruction(StrV(ColA), NoneV, NoneV, NoneV),
     Instruction(StrV(<<"Z">>), StrV(<<"P", ",", "Q">>), Comma, NoneV),
     Instruction(StrV(ColA), StrV(<<"P", "Q">>), Comma, NoneV),
     Instruction(StrV(ColA), StrV(<<"P", ",", "Q">>), StrV(EmptyStr), NoneV),
     Instruction(StrV(ColA), StrV(<<"R", ",", "S">>), Comma, StrV(<<" ">>))}

FormatInputs ==
    [df : PivotedInputs, markers : MarkerInputs,
     split_instructions : SeqsUpTo(InstructionInputs, MaxInstructions)]

InitFormat ==
    /\ fmIn \in {i \in FormatInputs : i.df.none => (Len(i.split_instructions) = 0 /\ i.markers.header_col = NoneV)}
    /\ fmOut = NotCalled("none")
    /\ ExtractAtRest
    /\ PrepAtRest
    /\ ExcelAtRest
    /\ UtilsAtRest
    /\ RunsAtRest

CallFormat ==
    /\ ~fmOut.called
    /\ fmOut' = Returned(FormatExtractedLabelsTable(fmIn.df, fmIn.markers, fmIn.split_instructions))
    /\ UNCHANGED <<fmIn, extractVars, prepVars, excelVars, outsideTables>>

NextFormat == CallFormat

SpecFormat == InitFormat /\ [][NextFormat]_vars

----------------------------------------------------------------------------
(* Claims about format_extracted_labels_table (SpecFormat) *)

\* the rows of df, by position, with Row >= first_row that are not fully
\* empty from header_col on
FilledRows(df, first_row, header_col) ==
    {r \in 1..Len(df.data) :
        /\ df.data[r][1].n >= first_row.n
        /\ \E c \in (2 + PySliceStart(header_col, Len(df.columns) - 1))..Len(df.columns) :
              df.data[r][c] # NaN}

\* the 'Row' values of a set of rows of df, in order
RowLabels(df, rows) ==
    LET at == SortedSeq(rows) IN [k \in 1..Len(at) |-> df.data[at[k]][1]]

\* C14: the row taken as the column names, the first not-fully-empty row with
\* Row >= header_row, is not a row of the returned table, whose rows are the
\* not-fully-empty rows with Row >= data_row
C14_HeaderRowConsumed ==
    (fmOut.called /\ ~fmOut.val.none) =>
        LET df == fmIn.df.df
            header == RowLabels(df, FilledRows(df, fmIn.markers.header_row, fmIn.markers.header_col))[1]
        IN /\ fmOut.val.header_at = header
           /\ \A k \in 1..Len(fmOut.val.df.index) : fmOut.val.df.index[k] # header
           /\ fmOut.val.df.index =
                 RowLabels(df, FilledRows(df, fmIn.markers.data_row, fmIn.markers.header_col))

\* the part of C14 that holds: which row gives the column names, and which
\* rows are returned
C14_RowsFromDataRow ==
    (fmOut.called /\ ~fmOut.val.none) =>
        LET df == fmIn.df.df
        IN /\ fmOut.val.header_at =
                 RowLabels(df, FilledRows(df, fmIn.markers.header_row, fmIn.markers.header_col))[1]
           /\ fmOut.val.df.index =
                 RowLabels(df, FilledRows(df, fmIn.markers.data_row, fmIn.markers.header_col))

\* the table of the call without split instructions
Unsplit == FormatExtractedLabelsTable(fmIn.df, fmIn.markers, << >>)

\* the instructions in order, one that fails leaving the table as it was
RECURSIVE SkippingFailures(_, _)
SkippingFailures(table_data, split_instructions) ==
    IF Len(split_instructions) = 0 THEN table_data
    ELSE SkippingFailures(SplitColumn(table_data, Head(split_instructions)).val,
                          Tail(split_instructions))

\* C15: a failing split instruction is skipped with its column left unsplit,
\* the remaining instructions are processed, and the formatted table is still
\* returned: no split instruction makes the formatting return None
C15_FailingSplitSkipped ==
    (fmOut.called /\ ~Unsplit.none) =>
        /\ ~fmOut.val.none
        /\ fmOut.val.df = SkippingFailures(Unsplit.df, fmIn.split_instructions)

\* the part of C15 that holds: the split instructions make the formatting
\* return None only by an exception, which is logged as an error
C15_NoneOnlyByException ==
    (fmOut.called /\ ~Unsplit.none /\ fmOut.val.none) =>
        /\ fmOut.val.log = "error"
        /\ SplitColumns(Unsplit.df, fmIn.split_instructions).raised

----------------------------------------------------------------------------
(* Numbers and dates in cells *)

\* a nullable integer (dtype Int64)
Int64V(k) == [t |-> "Int64", s |-> << >>, n |-> k, d |-> 0]

\* a float64 of value k / 10^dec, without trailing zeros in its decimals
RECURSIVE FloatV(_, _)
FloatV(k, dec) ==
    IF dec > 0 /\ k % 10 = 0 THEN FloatV(k \div 10, dec - 1)
    ELSE [t |-> "float", s |-> << >>, n |-> k, d |-> dec]

IsNumber(v) == v.t \in {"int", "Int64", "float"}

RECURSIVE Pow10(_)
Pow10(k) == IF k = 0 THEN 1 ELSE 10 * Pow10(k - 1)

\* str(k) for k >= 0
RECURSIVE NatText(_)
NatText(k) == IF k < 10 THEN <<Digits[k + 1]>> ELSE NatText(k \div 10) \o <<Digits[(k % 10) + 1]>>

\* the decimal digits of k, with zeros in front up to the given width
RECURSIVE ZeroPadded(_, _)
ZeroPadded(k, width) ==
    IF Len(NatText(k)) >= width THEN NatText(k) ELSE <<"0">> \o ZeroPadded(k, width - 1)

\* str(value) of a number
NumberText(v) ==
    LET mag == IF v.n < 0 THEN 0 - v.n ELSE v.n
        sign == IF v.n < 0 THEN <<"-">> ELSE << >>
    IN IF v.t = "float"
       THEN sign \o NatText(mag \div Pow10(v.d)) \o <<".">>
                 \o (IF v.d = 0 THEN <<"0">> ELSE ZeroPadded(mag % Pow10(v.d), v.d))
       ELSE sign \o NatText(mag)

\* pd.to_numeric(text, errors='coerce') for one text without surrounding
\* whitespace: digits with one optional sign and one optional decimal point
\* give an integer or a float, any other text (an exponent is in no input)
\* gives NaN
ParseNumber(text) ==
    LET signed == Len(text) > 0 /\ text[1] \in {"+", "-"}
        body == IF signed THEN Tail(text) ELSE text
        points == {i \in 1..Len(body) : body[i] = "."}
        whole == IF points = {} THEN body
                 ELSE SubSeq(body, 1, (CHOOSE i \in points : TRUE) - 1)
        frac == IF points = {} THEN << >>
                ELSE SubSeq(body, (CHOOSE i \in points : TRUE) + 1, Len(body))
        neg == signed /\ text[1] = "-"
        Signed(k) == IF neg THEN 0 - k ELSE k
    IN IF \/ Cardinality(points) > 1
          \/ Len(whole) + Len(frac) = 0
          \/ \E i \in 1..Len(whole) : ~IsDigit(whole[i])
          \/ \E i \in 1..Len(frac) : ~IsDigit(frac[i])
       THEN NaN
       ELSE IF points = {} THEN IntV(Signed(DigitsValue(whole)))
       ELSE FloatV(Signed(DigitsValue(whole) * Pow10(Len(frac)) + DigitsValue(frac)), Len(frac))

\* float(value) of a number
AsFloat(v) == FloatV(v.n, v.d)

\* the float is a whole number
IsWhole(v) == FloatV(v.n, v.d).d = 0

\* value == other between two cells: numbers by their value, texts by their
\* characters; a missing value equals nothing
SameValue(a, b) ==
    IF IsNumber(a) /\ IsNumber(b) THEN a.n * Pow10(b.d) = b.n * Pow10(a.d)
    ELSE a.t = "str" /\ b.t = "str" /\ a.s = b.s

\* days of month m of year y
DaysIn(y, m) ==
    IF m \in {4, 6, 9, 11} THEN 30
    ELSE IF m # 2 THEN 31
    ELSE IF (y % 4 = 0 /\ y % 100 # 0) \/ y % 400 = 0 THEN 29 ELSE 28

\* the date of the three numbers, if there is such a day
DateOf(y, m, dd) ==
    IF m \in 1..12 /\ dd >= 1 /\ dd <= DaysIn(y, m)
    THEN Ret([year |-> y, month |-> m, day |-> dd])
    ELSE Exc([year |-> 0, month |-> 0, day |-> 0])

\* the text has digits everywhere but at the two places, which hold sep
DateShaped(text, sep, first, second) ==
    /\ Len(text) = 10
    /\ text[first] = sep
    /\ text[second] = sep
    /\ \A i \in (1..10) \ {first, second} : IsDigit(text[i])

\* pd.to_datetime(text, errors='coerce') for one text: a calendar date
\* written YYYY-MM-DD or MM/DD/YYYY is parsed, any other text of the inputs
\* is not a date
ParseDate(text) ==
    IF DateShaped(text, "-", 5, 8)
    THEN DateOf(DigitsValue(SubSeq(text, 1, 4)), DigitsValue(SubSeq(text, 6, 7)),
                DigitsValue(SubSeq(text, 9, 10)))
    ELSE IF DateShaped(text, "/", 3, 6)
    THEN DateOf(DigitsValue(SubSeq(text, 7, 10)), DigitsValue(SubSeq(text, 1, 2)),
                DigitsValue(SubSeq(text, 4, 5)))
    ELSE Exc([year |-> 0, month |-> 0, day |-> 0])

\* strftime('%m/%d/%Y')
StrfMDY(date) ==
    ZeroPadded(date.month, 2) \o <<"/">> \o ZeroPadded(date.day, 2) \o <<"/">> \o ZeroPadded(date.year, 4)

\* s.replace(target, replacement) for a non-empty target
RECURSIVE ReplaceAll(_, _, _)
ReplaceAll(s, target, replacement) ==
    IF ~Contains(s, target) THEN s
    ELSE LET i == CHOOSE j \in 1..Len(s) :
                    /\ SubSeq(s, j, j + Len(target) - 1) = target
                    /\ \A k \in 1..(j - 1) : SubSeq(s, k, k + Len(target) - 1) # target
         IN SubSeq(s, 1, i - 1) \o replacement
            \o ReplaceAll(SubSeq(s, i + Len(target), Len(s)), target, replacement)

----------------------------------------------------------------------------
(* preprocess_sap_label_data and preprocess_sap_alv_data *)

\* A configuration dict is the sequence of its items in order, and an absent
\* (None) dict or list is the empty one: the code tests them by truth value.

HasColumn(frame, name) == PlacesOf(StrV(name), frame.columns) # {}

\* the position of a column that the frame has
ColAt(frame, name) ==
    CHOOSE k \in PlacesOf(StrV(name), frame.columns) :
        \A j \in PlacesOf(StrV(name), frame.columns) : k <= j

ColumnOf(frame, name) == [r \in 1..Len(frame.data) |-> frame.data[r][ColAt(frame, name)]]

\* processed_df[col] = values
SetColumn(frame, name, values) ==
    [frame EXCEPT !.data = [r \in 1..Len(frame.data) |->
                               [frame.data[r] EXCEPT ![ColAt(frame, name)] = values[r]]]]

\* str(value) of any cell
CellText(v) == IF IsNumber(v) THEN NumberText(v) ELSE AsText(v)

\* stage 1: processed_df.loc[:, existing_columns]
KeepColumns(frame, columns_to_keep) ==
    IF Len(columns_to_keep) = 0 THEN frame
    ELSE LET Exists(name) == HasColumn(frame, name)
             existing_columns == SelectSeq(columns_to_keep, Exists)
         IN Frame([k \in 1..Len(existing_columns) |-> StrV(existing_columns[k])],
                  frame.index,
                  [r \in 1..Len(frame.data) |->
                      [k \in 1..Len(existing_columns) |->
                          frame.data[r][ColAt(frame, existing_columns[k])]]])

\* the rules of one column, in order, on one text
RECURSIVE ApplyRules(_, _)
ApplyRules(text, rules) ==
    IF Len(rules) = 0 THEN text
    ELSE ApplyRules(ReplaceAll(text, Head(rules).target, Head(rules).replacement), Tail(rules))

\* stage 2: the columns with rules are made text, then the rules are applied
RECURSIVE ReplaceInColumns(_, _)
ReplaceInColumns(frame, replacement_rules) ==
    IF Len(replacement_rules) = 0 THEN frame
    ELSE LET item == Head(replacement_rules)
             col == ColumnOf(frame, item.col)
         IN ReplaceInColumns(
                IF HasColumn(frame, item.col)
                THEN SetColumn(frame, item.col,
                               [r \in 1..Len(col) |-> StrV(ApplyRules(CellText(col[r]), item.rules))])
                ELSE frame,
                Tail(replacement_rules))

\* stage 3, first half: processed_df.replace("", np.nan)
EmptyToNaN(frame) ==
    [frame EXCEPT !.data = [r \in 1..Len(frame.data) |->
                               [c \in 1..Len(frame.data[r]) |->
                                   IF frame.data[r][c] = StrV(EmptyStr) THEN NaN ELSE frame.data[r][c]]]]

\* Series.fillna(value)
FillNa(values, value) == [r \in 1..Len(values) |-> IF values[r] = NaN THEN value ELSE values[r]]

\* stage 3, second half: the fill values of the columns present
RECURSIVE FillMissing(_, _)
FillMissing(frame, missing_value_fill) ==
    IF Len(missing_value_fill) = 0 THEN frame
    ELSE LET item == Head(missing_value_fill)
         IN FillMissing(
                IF HasColumn(frame, item.col)
                THEN SetColumn(frame, item.col, FillNa(ColumnOf(frame, item.col), item.value))
                ELSE frame,
                Tail(missing_value_fill))

\* missing_value_fill.get(col, default)
FillValueOf(missing_value_fill, name, default) ==
    LET at == {k \in 1..Len(missing_value_fill) : missing_value_fill[k].col = name}
    IN IF at = {} THEN default ELSE missing_value_fill[CHOOSE k \in at : TRUE].value

\* label variant, lines 131-139: default_val of a column
DefaultVal(missing_value_fill, name, desired_type) ==
    IF desired_type \in {"int", "float"}
    THEN LET given == FillValueOf(missing_value_fill, name, IntV(0))
             parsed == IF given.t = "str" THEN ParseNumber(Strip(given.s)) ELSE given
         IN IF IsNumber(parsed) THEN AsFloat(parsed) ELSE IntV(0)
    ELSE FillValueOf(missing_value_fill, name, StrV(EmptyStr))

\* pd.to_numeric(column, errors='coerce'): int64 when every value is an
\* integer, float64 otherwise
ToNumeric(values) ==
    LET One(v) == IF v.t = "str" THEN ParseNumber(v.s) ELSE IF IsNumber(v) THEN v ELSE NaN
        nums == [r \in 1..Len(values) |-> One(values[r])]
    IN IF \A r \in 1..Len(nums) : nums[r].t = "int" THEN nums
       ELSE [r \in 1..Len(nums) |-> IF nums[r] = NaN THEN NaN ELSE AsFloat(nums[r])]

\* column.astype("Int64"): a TypeError when a value is not a whole number
AsInt64(values) ==
    IF \A r \in 1..Len(values) : values[r] = NaN \/ IsWhole(values[r])
    THEN Ret([r \in 1..Len(values) |->
                 IF values[r] = NaN THEN NaN ELSE Int64V(AsFloat(values[r]).n)])
    ELSE Exc(values)

\* line 178 without the conversion
AsFloat64Unchanged(values) == values

\* column.astype(float)
AsFloat64(values) ==
    [r \in 1..Len(values) |-> IF values[r] = NaN THEN NaN ELSE AsFloat(values[r])]

\* label variant, line 149: the texts taken for missing dates
BadDates ==
    {EmptyStr, <<"n", "a", "n">>, <<"N", "a", "N">>, <<"N", "o", "n", "e">>, <<"n", "u", "l", "l">>}

\* a date column with its NaT left as they are
KeepNaT(values) == values

\* label variant, line 153: .fillna("")
FillNaT(values) == FillNa(values, StrV(EmptyStr))

\* pd.to_datetime(column, errors='coerce').dt.normalize().dt.strftime('%m/%d/%Y')
\* over texts and missing values
ToDateText(values) ==
    [r \in 1..Len(values) |->
        IF values[r].t = "str" /\ ~ParseDate(values[r].s).raised
        THEN StrV(StrfMDY(ParseDate(values[r].s).val))
        ELSE NaN]

\* label variant, lines 144-189: one column to its type; an exception of the
\* conversion is caught and leaves the column as last assigned
CoerceFull(values, desired_type, default_val) ==
    LET filled == FillNa(values, default_val)
        stripped == [r \in 1..Len(filled) |-> StrV(Strip(CellText(filled[r])))]
        cleaned == [r \in 1..Len(filled) |->
                       StrV(Strip(ReplaceAll(CellText(filled[r]), <<",">>, EmptyStr)))]
        numeric == ToNumeric(cleaned)
    IN IF desired_type = "date"
       THEN FillNaT(ToDateText([r \in 1..Len(stripped) |->
                                   IF stripped[r].s \in BadDates THEN NaN ELSE stripped[r]]))
       ELSE IF desired_type = "int"
       THEN (IF AsInt64(FillNa(numeric, default_val)).raised THEN numeric
             ELSE AsInt64(FillNa(numeric, default_val)).val)
       ELSE IF desired_type = "float" THEN AsFloat64(FillNa(numeric, default_val))
       ELSE IF desired_type = "str"
       THEN [r \in 1..Len(stripped) |->
                IF stripped[r].s = <<"n", "a", "n">> THEN StrV(EmptyStr) ELSE stripped[r]]
       ELSE filled

\* light variant, lines 131-149: one column to its type, or the TypeError of
\* astype("Int64"), which nothing catches
CoerceLight(values, desired_type) ==
    IF desired_type = "date" THEN Ret(ToDateText(values))
    ELSE IF desired_type = "int" THEN AsInt64(ToNumeric(values))
    ELSE IF desired_type = "float" THEN Ret(AsFloat64(ToNumeric(values)))
    ELSE IF desired_type = "str" THEN Ret([r \in 1..Len(values) |-> StrV(CellText(values[r]))])
    ELSE Ret(values)

\* stage 4: the columns of dtype_mapping in order
RECURSIVE CoerceColumns(_, _, _, _)
CoerceColumns(variant, frame, dtype_mapping, missing_value_fill) ==
    IF Len(dtype_mapping) = 0 THEN Ret(frame)
    ELSE LET item == Head(dtype_mapping)
             col == ColumnOf(frame, item.col)
             light == CoerceLight(col, item.type)
         IN IF ~HasColumn(frame, item.col)
            THEN CoerceColumns(variant, frame, Tail(dtype_mapping), missing_value_fill)
            ELSE IF variant = "label"
            THEN CoerceColumns(variant,
                               SetColumn(frame, item.col,
                                         CoerceFull(col, item.type,
                                                    DefaultVal(missing_value_fill, item.col, item.type))),
                               Tail(dtype_mapping), missing_value_fill)
            ELSE IF light.raised THEN Exc(frame)
            ELSE CoerceColumns(variant, SetColumn(frame, item.col, light.val),
                               Tail(dtype_mapping), missing_value_fill)

\* the rows of the frame that pass the test
RowsWhere(frame, Test(_)) ==
    LET at == SortedSeq({r \in 1..Len(frame.data) : Test(frame.data[r])})
    IN [frame EXCEPT !.index = [k \in 1..Len(at) |-> frame.index[at[k]]],
                     !.data = [k \in 1..Len(at) |-> frame.data[at[k]]]]

\* Series.isin(values): a missing value is in a list that holds one
IsIn(v, values) ==
    \E k \in 1..Len(values) : (v = NaN /\ values[k] = NaN) \/ SameValue(v, values[k])

\* lines 194-205 with a condition on a missing column removing every row
FilterByPresentColumn(frame, item) ==
    LET at == ColAt(frame, item.col)
        Passes(row) == HasColumn(frame, item.col) /\ IsIn(row[at], item.values)
    IN RowsWhere(frame, Passes)

\* lines 196-205 for one condition: a list keeps the rows whose value is in
\* it, another condition (a list of one value here) the rows whose value
\* equals it; a column that is missing is passed over
FilterBy(frame, item) ==
    LET at == ColAt(frame, item.col)
        Passes(row) == IF item.is_list THEN IsIn(row[at], item.values)
                       ELSE SameValue(row[at], item.values[1])
    IN IF HasColumn(frame, item.col) THEN RowsWhere(frame, Passes) ELSE frame

\* stage 5: the conditions in order
RECURSIVE FilterRows(_, _)
FilterRows(frame, filter_conditions) ==
    IF Len(filter_conditions) = 0 THEN frame
    ELSE FilterRows(FilterBy(frame, Head(filter_conditions)), Tail(filter_conditions))

\* stage 6 left out
KeepDuplicates(frame) == frame

\* stage 6: drop_duplicates() keeps the first of equal rows
DropDuplicates(frame) ==
    LET at == SortedSeq({r \in 1..Len(frame.data) :
                            \A q \in 1..(r - 1) : frame.data[q] # frame.data[r]})
    IN [frame EXCEPT !.index = [k \in 1..Len(at) |-> frame.index[at[k]]],
                     !.data = [k \in 1..Len(at) |-> frame.data[at[k]]]]

\* stage 7: reset_index(drop=True)
ResetIndex(frame) == [frame EXCEPT !.index = [k \in 1..Len(frame.data) |-> IntV(k - 1)]]

Total == <<"T", "o", "t", "a", "l">>

\* the first row in place of the last
FirstRowOf(frame) == 1

\* stage 8: processed_df.index[-1]
LastRowOf(frame) == Len(frame.data)

\* stage 8: "Total" in the last row's cell of date_col when it is missing or empty
InsertTotal(frame, date_col) ==
    IF ~FrameEmpty(frame) /\ date_col.t = "str" /\ HasColumn(frame, date_col.s)
    THEN LET last_idx == LastRowOf(frame)
             last_val == frame.data[last_idx][ColAt(frame, date_col.s)]
         IN IF last_val = NaN \/ last_val = StrV(EmptyStr)
            THEN [frame EXCEPT !.data[last_idx][ColAt(frame, date_col.s)] = StrV(Total)]
            ELSE frame
    ELSE frame

\* the columns and types the "Unsupported data type" warning was logged with.
\* Label variant, lines 191-192: the else belongs to the for, so the warning
\* comes once when the loop is over, with the last col and desired_type.
\* Light variant, lines 148-149: it comes for each column present whose type
\* is none of the four
UnsupportedLogged(variant, frame, dtype_mapping) ==
    IF variant = "label"
    THEN (IF Len(dtype_mapping) = 0 THEN << >> ELSE <<dtype_mapping[Len(dtype_mapping)]>>)
    ELSE LET Unsupported(item) == /\ HasColumn(frame, item.col)
                                  /\ item.type \notin {"date", "int", "float", "str"}
         IN SelectSeq(dtype_mapping, Unsupported)

\* what a call ends with: the table returned and the table after each stage,
\* the unsupported types logged, or the exception that left the call; early
\* is a return before the stages
Preprocessed(isRaised, isEarly, afterReplace, afterFill, afterCoerce, logged, afterFilter, afterReset, final) ==
    [raised |-> isRaised, early |-> isEarly, replaced |-> afterReplace, filled |-> afterFill,
     coerced |-> afterCoerce, unsupported |-> logged, filtered |-> afterFilter,
     reset |-> afterReset, ret |-> final]

\* lines 56-83 (label), 59-86 (light): the return for a None or empty df
EarlyReturn(df, cfg) ==
    IF ~cfg.none_empty_df.none THEN cfg.none_empty_df.df
    ELSE IF df.none
    THEN Frame([k \in 1..Len(cfg.columns_to_keep) |-> StrV(cfg.columns_to_keep[k])], << >>, << >>)
    ELSE KeepColumns(df.df, cfg.columns_to_keep)

\* preprocess_sap_label_data (variant "label") and preprocess_sap_alv_data
\* (variant "alv", without stage 6)
Preprocess(variant, df, cfg) ==
    IF df.none \/ FrameEmpty(df.df)
    THEN LET out == EarlyReturn(df, cfg)
         IN Preprocessed(FALSE, TRUE, out, out, out, << >>, out, out, out)
    ELSE LET replaced == ReplaceInColumns(KeepColumns(df.df, cfg.columns_to_keep),
                                          cfg.replacement_rules)
             filled == FillMissing(EmptyToNaN(replaced), cfg.missing_value_fill)
             logged == UnsupportedLogged(variant, filled, cfg.dtype_mapping)
             coerced == CoerceColumns(variant, filled, cfg.dtype_mapping, cfg.missing_value_fill)
             filtered == FilterRows(coerced.val, cfg.filter_conditions)
             reset == ResetIndex(IF variant = "label" THEN DropDuplicates(filtered) ELSE filtered)
         IN IF coerced.raised
            THEN Preprocessed(TRUE, FALSE, replaced, filled, coerced.val, << >>, coerced.val,
                              coerced.val, NoDf)
            ELSE Preprocessed(FALSE, FALSE, replaced, filled, coerced.val, logged, filtered, reset,
                              InsertTotal(reset, cfg.date_col))

----------------------------------------------------------------------------
(* Specification of the two preprocessing functions over formatted tables *)

\* most rows of a table given to the preprocessing
MaxRows == 2

Date == <<"D", "a", "t", "e">>
Product == <<"P", "r", "o", "d", "u", "c", "t">>
Unknown == <<"Z">>
Apple == <<"a", "p", "p", "l", "e">>
Banana == <<"b", "a", "n", "a", "n", "a">>
Kiwi == <<"k", "i", "w", "i">>
NewYear == <<"2", "0", "2", "2", "-", "0", "1", "-", "0", "1">>
NewYearMDY == <<"0", "1", "/", "0", "1", "/", "2", "0", "2", "2">>
NoSuchDay == <<"2", "0", "2", "3", "-", "0", "2", "-", "2", "9">>

\* rows of the columns Date, Product, Qty: a date, a day that does not
\* exist, a missing date, an empty one, and a text that is no date; numbers
\* with and without a thousands separator or a decimal point, and none
RowInputs ==
    {<<StrV(NewYear), StrV(Apple), StrV(Ten)>>,
     <<StrV(NoSuchDay), StrV(Banana), StrV(<<"1", ",", "0", "0", "0">>)>>,
     <<NaN, StrV(<<" ">> \o Kiwi), StrV(<<"x">>)>>,
     <<StrV(EmptyStr), StrV(Apple), StrV(<<"1", ".", "5">>)>>,
     <<StrV(<<"a", "b", "c">>), StrV(Banana), NaN>>}

TableOf(rows) ==
    Frame(<<StrV(Date), StrV(Product), StrV(Qty)>>, [k \in 1..Len(rows) |-> IntV(k + 4)], rows)

TableInputs == {TableOf(rows) : rows \in SeqsUpTo(RowInputs, MaxRows)}

Dtype(name, type) == [col |-> name, type |-> type]

DtypeInputs ==
    {<< >>, <<Dtype(Date, "date")>>, <<Dtype(Qty, "int")>>,
     <<Dtype(Qty, "float"), Dtype(Date, "date")>>,
     <<Dtype(Product, "str"), Dtype(Unknown, "int")>>,
     <<Dtype(Qty, "bool")>>,
     <<Dtype(Qty, "bool"), Dtype(Date, "date")>>}

Condition(name, isList, accepted) == [col |-> name, is_list |-> isList, values |-> accepted]

FilterInputs ==
    {<< >>,
     <<Condition(Product, TRUE, <<StrV(Apple), StrV(Banana)>>)>>,
     <<Condition(Product, FALSE, <<StrV(Apple)>>)>>,
     <<Condition(Unknown, FALSE, <<StrV(<<"x">>)>>)>>,
     <<Condition(Product, TRUE, <<StrV(Apple), StrV(Kiwi)>>),
       Condition(Date, FALSE, <<StrV(NewYearMDY)>>)>>}

\* columns_to_keep, replacement_rules and missing_value_fill: none; a keep
\* list that reorders the columns, and a fill value for Qty; a replacement
\* in Product; the thousands separator taken out of Qty and a fill value
\* for Qty
RestInputs ==
    {[columns_to_keep |-> << >>, replacement_rules |-> << >>, missing_value_fill |-> << >>],
     [columns_to_keep |-> <<Qty, Unknown, Date, Product>>, replacement_rules |-> << >>,
      missing_value_fill |-> <<[col |-> Qty, value |-> StrV(<<"5">>)]>>],
     [columns_to_keep |-> << >>,
      replacement_rules |-> <<[col |-> Product,
                               rules |-> <<[target |-> <<"a", "n">>, replacement |-> <<"A">>]>>]>>,
      missing_value_fill |-> << >>],
     [columns_to_keep |-> << >>,
      replacement_rules |-> <<[col |-> Qty,
                               rules |-> <<[target |-> <<",">>, replacement |-> EmptyStr]>>]>>,
      missing_value_fill |-> <<[col |-> Qty, value |-> StrV(<<"5">>)]>>]}

\* rows that differ only in the date: "Total" and none
TotalRowInputs ==
    {<<StrV(Total), StrV(Apple), StrV(Ten)>>, <<StrV(EmptyStr), StrV(Apple), StrV(Ten)>>}

Config(rest, dtypes, conditions, fallback, dateCol) ==
    [columns_to_keep |-> rest.columns_to_keep, replacement_rules |-> rest.replacement_rules,
     missing_value_fill |-> rest.missing_value_fill, dtype_mapping |-> dtypes,
     filter_conditions |-> conditions, none_empty_df |-> fallback, date_col |-> dateCol]

PrepInputs ==
    {[variant |-> v, df |-> SomeDf(table), cfg |-> Config(rest, dtypes, conditions, NoneDf, dateCol)] :
        v \in {"label", "alv"}, table \in TableInputs \ {TableOf(<< >>)}, rest \in RestInputs,
        dtypes \in DtypeInputs, conditions \in FilterInputs, dateCol \in {NoneV, StrV(Date)}}
    \cup
    {[variant |-> v, df |-> SomeDf(TableOf(rows)),
      cfg |-> Config(rest, << >>, << >>, NoneDf, StrV(Date))] :
        v \in {"label", "alv"}, rows \in SeqsUpTo(TotalRowInputs, MaxRows) \ {<< >>},
        rest \in RestInputs}
    \cup
    {[variant |-> v, df |-> df, cfg |-> Config(rest, << >>, << >>, fallback, StrV(Date))] :
        v \in {"label", "alv"}, df \in {NoneDf, SomeDf(TableOf(<< >>))}, rest \in RestInputs,
        fallback \in {NoneDf, SomeDf(TableOf(<<<<StrV(EmptyStr), StrV(Apple), StrV(Ten)>>>>))}}

InitPrep ==
    /\ ppIn \in PrepInputs
    /\ ppOut = NotCalled("none")
    /\ ExtractAtRest
    /\ FormatAtRest
    /\ ExcelAtRest
    /\ UtilsAtRest
    /\ RunsAtRest

CallPreprocess ==
    /\ ~ppOut.called
    /\ ppOut' = Returned(Preprocess(ppIn.variant, ppIn.df, ppIn.cfg))
    /\ UNCHANGED <<ppIn, extractVars, formatVars, excelVars, outsideTables>>

NextPrep == CallPreprocess

SpecPrep == InitPrep /\ [][NextPrep]_vars

----------------------------------------------------------------------------
(* Claims about the preprocessing (SpecPrep) *)

\* the call went through the stages
Staged == ppOut.called /\ ~ppOut.val.raised /\ ~ppOut.val.early

\* the date column is configured and in the returned table, which has rows
DateColumnReturned ==
    /\ Staged
    /\ ppIn.cfg.date_col.t = "str"
    /\ HasColumn(ppOut.val.ret, ppIn.cfg.date_col.s)
    /\ Len(ppOut.val.ret.data) > 0

\* the rows of the filtered table, in order, without the repeated ones in
\* the variant that removes duplicates
Remaining ==
    LET rows == ppOut.val.filtered.data
        at == SortedSeq({r \in 1..Len(rows) :
                            ppIn.variant = "label" => \A q \in 1..(r - 1) : rows[q] # rows[r]})
    IN [k \in 1..Len(at) |-> rows[at[k]]]

\* C16: in the last of the rows that remain after filtering and
\* de-duplication, a null or empty cell of the date column becomes "Total"
\* and a cell holding a value stays; no other cell is changed
C16_TotalOnlyInLastDateCell ==
    DateColumnReturned =>
        LET ret == ppOut.val.ret
            last == Len(Remaining)
            c == ColAt(ret, ppIn.cfg.date_col.s)
        IN /\ ret.columns = ppOut.val.filtered.columns
           /\ Len(ret.data) = last
           /\ ret.data[last][c] =
                 IF Remaining[last][c] \in {NaN, StrV(EmptyStr)} THEN StrV(Total)
                 ELSE Remaining[last][c]
           /\ \A r \in 1..last, k \in 1..Len(ret.columns) :
                 (r # last \/ k # c) => ret.data[r][k] = Remaining[r][k]

\* two rows remained, the first with a dated cell, the last with an empty
\* one that became "Total"
C16_Witness ==
    /\ DateColumnReturned
    /\ Len(ppIn.cfg.filter_conditions) > 0
    /\ Len(ppOut.val.ret.data) = 2
    /\ ppOut.val.reset.data[2][ColAt(ppOut.val.ret, ppIn.cfg.date_col.s)] \in {NaN, StrV(EmptyStr)}
    /\ ppOut.val.ret.data[2][ColAt(ppOut.val.ret, ppIn.cfg.date_col.s)] = StrV(Total)
    /\ ppOut.val.ret.data[1][ColAt(ppOut.val.ret, ppIn.cfg.date_col.s)] = StrV(NewYearMDY)

\* the row satisfies every condition on a column of the table
Satisfies(frame, row, filter_conditions) ==
    \A k \in 1..Len(filter_conditions) :
        HasColumn(frame, filter_conditions[k].col) =>
            LET v == row[ColAt(frame, filter_conditions[k].col)]
            IN IF filter_conditions[k].is_list
               THEN \E j \in 1..Len(filter_conditions[k].values) :
                        \/ SameValue(v, filter_conditions[k].values[j])
                        \/ (v = NaN /\ filter_conditions[k].values[j] = NaN)
               ELSE SameValue(v, filter_conditions[k].values[1])

\* C17: after the row filtering the table holds exactly the rows of the
\* coerced table that satisfy every condition on a column present, in their
\* order; a condition on an absent column removes no row
C17_FilterKeepsMatchingRows ==
    Staged =>
        LET coerced == ppOut.val.coerced
            at == SortedSeq({r \in 1..Len(coerced.data) :
                                Satisfies(coerced, coerced.data[r], ppIn.cfg.filter_conditions)})
        IN /\ ppOut.val.filtered.columns = coerced.columns
           /\ ppOut.val.filtered.data = [k \in 1..Len(at) |-> coerced.data[at[k]]]
           /\ ppOut.val.filtered.index = [k \in 1..Len(at) |-> coerced.index[at[k]]]

\* Product in [apple, banana] kept one of two rows
C17_Witness ==
    /\ Staged
    /\ ppIn.cfg.filter_conditions = <<Condition(Product, TRUE, <<StrV(Apple), StrV(Banana)>>)>>
    /\ Len(ppOut.val.coerced.data) = 2
    /\ Len(ppOut.val.filtered.data) = 1
    /\ ppOut.val.filtered.data[1] = ppOut.val.coerced.data[2]

\* the columns given the type date that the table has
DateColumns ==
    {ppIn.cfg.dtype_mapping[k].col : k \in {j \in 1..Len(ppIn.cfg.dtype_mapping) :
        /\ ppIn.cfg.dtype_mapping[j].type = "date"
        /\ HasColumn(ppOut.val.filled, ppIn.cfg.dtype_mapping[j].col)}}

\* the text of a cell as the variant reads it: trimmed in the full variant
DateTextOf(v) ==
    IF v.t # "str" THEN EmptyStr ELSE IF ppIn.variant = "label" THEN Strip(v.s) ELSE v.s

\* MM/DD/YYYY of a text YYYY-MM-DD
MDYOf(text) ==
    SubSeq(text, 6, 7) \o <<"/">> \o SubSeq(text, 9, 10) \o <<"/">> \o SubSeq(text, 1, 4)

\* every value of a date column is the MM/DD/YYYY text of the date it parses
\* to, or the given value in the full (label) and in the light variant
DatesCoerced(unparsedFull, unparsedLight) ==
    Staged =>
        \A name \in DateColumns : \A r \in 1..Len(ppOut.val.filled.data) :
            LET before == DateTextOf(ppOut.val.filled.data[r][ColAt(ppOut.val.filled, name)])
                after == ppOut.val.coerced.data[r][ColAt(ppOut.val.coerced, name)]
            IN IF ~ParseDate(before).raised THEN after = StrV(MDYOf(before))
               ELSE IF ppIn.variant = "label" THEN after = unparsedFull
               ELSE after = unparsedLight

\* C19, as the code has it: every value of a date column is, after coercion,
\* the MM/DD/YYYY text of the date it parses to or, when unparseable, the
\* empty string in the full (de-duplicating, label) variant and null in the
\* light variant
C19_UnparseableEmptyInFullNullInLight == DatesCoerced(StrV(EmptyStr), NaN)

\* C19, as stated: unparseable values are null in the full variant and the
\* empty string in the light variant
C19_UnparseableNullInFullEmptyInLight == DatesCoerced(NaN, StrV(EmptyStr))

\* the full variant coerced a date and a day that does not exist
C19_Witness ==
    /\ Staged
    /\ ppIn.variant = "label"
    /\ Date \in DateColumns
    /\ Len(ppOut.val.filled.data) = 2
    /\ ppOut.val.filled.data[1][ColAt(ppOut.val.filled, Date)] = StrV(NewYear)
    /\ ppOut.val.coerced.data[1][ColAt(ppOut.val.coerced, Date)] = StrV(NewYearMDY)
    /\ ppOut.val.filled.data[2][ColAt(ppOut.val.filled, Date)] = StrV(NoSuchDay)
    /\ ppOut.val.coerced.data[2][ColAt(ppOut.val.coerced, Date)] = StrV(EmptyStr)

----------------------------------------------------------------------------
(* Specification of the pipeline: extract, format, preprocess *)

\* the label child of the user area that gives the cell
ChildOf(cell) ==
    [Id |-> UsrPath \o lbl \o <<"[">> \o NatText(cell.Column) \o <<",">>
            \o NatText(cell.Row) \o <<"]">>,
     attrs |-> OnlyText(Attr(cell.Text))]

ChildrenOf(cells) == [k \in 1..Len(cells) |-> ChildOf(cells[k])]

\* the cells of a screen: a header row, a data row, a row between them, and
\* a second label at the place of one of the data row
ScreenCells ==
    QtyPriceCells \o <<LabelCell(4, 0, <<"x">>), LabelCell(5, 1, <<"1", ".", "5">>)>>

\* the cells of ScreenCells at the given places, in order
CellsAt(places) ==
    LET at == SortedSeq(places) IN [k \in 1..Len(at) |-> ScreenCells[at[k]]]

Markers(header, col, data) ==
    [title_row |-> NoneV, title_col |-> NoneV, header_row |-> header,
     header_col |-> col, data_row |-> data]

NoRest == [columns_to_keep |-> << >>, replacement_rules |-> << >>, missing_value_fill |-> << >>]

QtyIntPriceFloat == <<Dtype(Qty, "int"), Dtype(Price, "float")>>

InitPipeline ==
    /\ exIn \in {[usr |-> "ok", children |-> ChildrenOf(CellsAt(places))] :
                    places \in SUBSET (1..Len(ScreenCells))}
    /\ exOut = NotCalled("none")
    /\ fmIn \in {[df |-> NoneDf, markers |-> Markers(IntV(h), IntV(0), IntV(d)),
                  split_instructions |-> << >>] : h \in {3, 4}, d \in {4, 5}}
    /\ fmOut = NotCalled("none")
    /\ ppIn \in {[variant |-> "label", df |-> NoneDf,
                  cfg |-> Config(NoRest, dtypes, << >>, NoneDf, NoneV)] :
                    dtypes \in {<< >>, QtyIntPriceFloat}}
    /\ ppOut = NotCalled("none")
    /\ ExcelAtRest
    /\ UtilsAtRest
    /\ RunsAtRest

\* transaction_template.py line 153
PipeExtract ==
    /\ ~exOut.called
    /\ exOut' = Returned(ExtractLabels(exIn))
    /\ UNCHANGED <<exIn, formatVars, prepVars, excelVars, outsideTables>>

\* transaction_template.py lines 154-159: the raw table, unless it is None
PipeFormat ==
    /\ exOut.called
    /\ ~exOut.val.none
    /\ ~fmOut.called
    /\ fmIn' = [fmIn EXCEPT !.df = SomeDf(exOut.val.df)]
    /\ fmOut' = Returned(FormatExtractedLabelsTable(SomeDf(exOut.val.df), fmIn.markers,
                                                    fmIn.split_instructions))
    /\ UNCHANGED <<extractVars, prepVars, excelVars, outsideTables>>

\* transaction_template.py lines 160-165: the formatted table, unless it is None
PipePreprocess ==
    /\ fmOut.called
    /\ ~fmOut.val.none
    /\ ~ppOut.called
    /\ ppIn' = [ppIn EXCEPT !.df = SomeDf(fmOut.val.df)]
    /\ ppOut' = Returned(Preprocess(ppIn.variant, SomeDf(fmOut.val.df), ppIn.cfg))
    /\ UNCHANGED <<extractVars, formatVars, excelVars, outsideTables>>

NextPipeline ==
    \/ PipeExtract
    \/ PipeFormat
    \/ PipePreprocess

SpecPipeline == InitPipeline /\ [][NextPipeline]_vars

----------------------------------------------------------------------------
(* Claims about the pipeline (SpecPipeline) *)

\* the scenario: the four label cells, header_row=3, data_row=5, header_col=0,
\* dtype {"Qty": "int", "Price": "float"}
QtyPriceScenario ==
    /\ exIn.children = ChildrenOf(QtyPriceCells)
    /\ fmIn.markers = Markers(IntV(3), IntV(0), IntV(5))
    /\ ppIn.cfg.dtype_mapping = QtyIntPriceFloat

\* C18: in the scenario the three steps give a table with the columns Qty
\* and Price and one row, Qty the nullable integer 10 and Price the float
\* 100.0; the header row is not among the data rows
C18_QtyPriceEndToEnd ==
    QtyPriceScenario =>
        /\ exOut.called =>
              (~exOut.val.none /\ exOut.val.label_data = QtyPriceCells)
        /\ fmOut.called =>
              /\ ~fmOut.val.none
              /\ fmOut.val.header_at = IntV(3)
              /\ fmOut.val.df.index = <<IntV(5)>>
        /\ ppOut.called =>
              /\ ~ppOut.val.raised
              /\ ppOut.val.ret.columns = <<StrV(Qty), StrV(Price)>>
              /\ ppOut.val.ret.data = <<<<Int64V(10), FloatV(100, 0)>>>>

\* the scenario ran to the end of the preprocessing
C18_Witness ==
    /\ QtyPriceScenario
    /\ exOut.called
    /\ fmOut.called
    /\ ppOut.called
    /\ Len(ppOut.val.ret.data) = 1


-----------------------------------------------------------------------------
\* utils/update_excel_sheet.py: the workbook and update_excel_with_sap_data

\* a datetime.date as a cell value
DateV(date) ==
    [t |-> "date", s |-> << >>, n |-> date.year * 10000 + date.month * 100 + date.day, d |-> 0]

\* an openpyxl cell: its value and the name of its style
Cell(v, style) == [value |-> v, style |-> style]

\* a worksheet: its title and its rows of cells, row 1 first
Sheet(title, rows) == [title |-> title, rows |-> rows]

\* a workbook file: its sheets in order and the names of its named styles
Workbook(sheets, named_styles) == [sheets |-> sheets, named_styles |-> named_styles]

\* wb.sheetnames
sheetnames(wb) == [i \in 1..Len(wb.sheets) |-> wb.sheets[i].title]

\* ws.max_row: 1 for a sheet without cells
max_row(rows) == IF Len(rows) = 0 THEN 1 ELSE Len(rows)

\* ws.delete_rows with its default amount=1
delete_first_row_only(rows, first, amount) ==
    SubSeq(rows, 1, first - 1) \o SubSeq(rows, first + 1, Len(rows))

\* ws.delete_rows(idx, amount): the rows from first + amount on move up over the
\* deleted ones; with no cell left the next append writes row 1
delete_rows(rows, first, amount) ==
    SubSeq(rows, 1, first - 1) \o SubSeq(rows, first + amount, Len(rows))

\* ws.append(values): one more row below the last one, cells in the default style
append(rows, values) ==
    Append(rows, [c \in 1..Len(values) |-> Cell(values[c], "Normal")])

\* the values of column c
ColumnAt(frame, c) == [r \in 1..Len(frame.data) |-> frame.data[r][c]]

\* df.select_dtypes(include=['object']): a column holding text
IsObject(values) == \E r \in 1..Len(values) : values[r].t \in {"str", "none"}

\* pd.to_numeric(values, errors='ignore'): the numbers if every text is one,
\* the column as it was if not
ToNumericIgnore(values) ==
    IF \A r \in 1..Len(values) : values[r].t = "str" => ParseNumber(values[r].s) # NaN
    THEN ToNumeric(values)
    ELSE values

\* lines 35-36
ConvertObjects(frame) ==
    LET Converted(c) == IF IsObject(ColumnAt(frame, c))
                        THEN ToNumericIgnore(ColumnAt(frame, c))
                        ELSE ColumnAt(frame, c)
    IN [frame EXCEPT !.data = [r \in 1..Len(frame.data) |->
                                  [c \in 1..Len(frame.columns) |-> Converted(c)[r]]]]

\* the places of the date_columns that are columns of the table
DatePlaces(frame, date_columns) ==
    {c \in 1..Len(frame.columns) :
        \E k \in 1..Len(date_columns) : frame.columns[c] = StrV(date_columns[k])}

\* pd.to_datetime(values, errors='coerce').dt.date of a column of texts and
\* nulls: NaT where the text is no date
ToDate(v) ==
    IF v.t = "str" /\ ~ParseDate(v.s).raised THEN DateV(ParseDate(v.s).val) ELSE NaN

\* lines 42-44
ConvertDates(frame, date_columns) ==
    [frame EXCEPT !.data = [r \in 1..Len(frame.data) |->
        [c \in 1..Len(frame.columns) |->
            IF c \in DatePlaces(frame, date_columns)
            THEN ToDate(frame.data[r][c])
            ELSE frame.data[r][c]]]]

\* a row holds pd.NA, the null of a nullable integer column, which ws.append
\* refuses (ValueError)
HoldsNA(frame, date_columns) ==
    \E c \in (1..Len(frame.columns)) \ DatePlaces(frame, date_columns) :
        /\ \E r \in 1..Len(frame.data) : frame.data[r][c].t = "Int64"
        /\ \E r \in 1..Len(frame.data) : frame.data[r][c] = NaN

\* a date column holds NaT
HoldsNaT(frame, date_columns) ==
    \E c \in DatePlaces(frame, date_columns) :
        \E r \in 1..Len(frame.data) : frame.data[r][c] = NaN

\* lines 80-87: the cells of the date columns that hold a date get the style
Styled(rows, frame, date_columns) ==
    [r \in 1..Len(rows) |->
        [c \in 1..Len(rows[r]) |->
            IF /\ r \in 2..(Len(frame.data) + 1)
               /\ c \in DatePlaces(frame, date_columns)
               /\ rows[r][c].value.t = "date"
               /\ rows[r][c].style # "mmddyyyy"
            THEN Cell(rows[r][c].value, "mmddyyyy")
            ELSE rows[r][c]]]

RECURSIVE AppendAll(_, _)
\* lines 64-65
AppendAll(rows, data) ==
    IF Len(data) = 0 THEN rows
    ELSE AppendAll(append(rows, Head(data)), Tail(data))

\* lines 53-65 and 80-87 on the sheets of the loaded workbook
WriteSheet(sheets, SHEET_NAME, frame, date_columns) ==
    LET at == {i \in 1..Len(sheets) : sheets[i].title = SHEET_NAME}
        cleared == IF at = {} THEN << >>
                   ELSE LET ws == sheets[CHOOSE i \in at : TRUE]
                        IN delete_rows(ws.rows, 1, max_row(ws.rows))
        written == AppendAll(append(cleared, frame.columns), frame.data)
        ws == Sheet(SHEET_NAME, Styled(written, frame, date_columns))
    IN IF at = {} THEN Append(sheets, ws)
       ELSE [sheets EXCEPT ![CHOOSE i \in at : TRUE] = ws]

\* the outcome of a call: whether an exception left it, what it returns, the
\* workbook file afterwards, the level of the last log record, whether
\* load_workbook was called and whether wb.save completed
Updated(raised, ret, wb, level, opened, saved) ==
    [raised |-> raised, ret |-> ret, workbook |-> wb, log |-> level,
     opened |-> opened, saved |-> saved]

\* the file that a save interrupted while writing leaves: the archive was
\* opened for writing, which empties it, and was never completed
Truncated == Workbook(<< >>, {})

\* lines 23-92, the body of the try. loads: load_workbook finds and reads the
\* file. natRaises: writing NaT fails; styleRaises: registering the style
\* under a name the workbook has already fails. saves: "ok", "refused" (the
\* file cannot be opened for writing) or "broken" (a fault while the archive
\* is being written)
UpdateExcelBody(df, none_df, date_columns, wb, SHEET_NAME, loads, natRaises, styleRaises, saves) ==
    LET given == IF df.none THEN none_df ELSE df
        frame == ConvertDates(ConvertObjects(given.df), date_columns)
        sheets == WriteSheet(wb.sheets, SHEET_NAME, frame, date_columns)
        styles == \E r \in 1..Len(frame.data) :
                      \E c \in DatePlaces(frame, date_columns) : frame.data[r][c].t = "date"
    IN IF given.none THEN Updated(FALSE, FALSE, wb, "warning", FALSE, FALSE)
       ELSE IF \/ ~loads
               \/ HoldsNA(frame, date_columns)
               \/ natRaises /\ HoldsNaT(frame, date_columns)
               \/ styleRaises /\ styles /\ "mmddyyyy" \in wb.named_styles
       THEN Updated(TRUE, FALSE, wb, "info", TRUE, FALSE)
       ELSE IF saves = "refused" THEN Updated(TRUE, FALSE, wb, "info", TRUE, FALSE)
       ELSE IF saves = "broken" THEN Updated(TRUE, FALSE, Truncated, "info", TRUE, FALSE)
       ELSE Updated(FALSE, TRUE,
                    Workbook(sheets, IF styles THEN wb.named_styles \cup {"mmddyyyy"}
                                     ELSE wb.named_styles),
                    "info", TRUE, TRUE)

\* without the handler the exception leaves the call
Propagated(outcome) == outcome

\* lines 94-96: except Exception logs the error and returns False
Caught(outcome) ==
    IF outcome.raised THEN [outcome EXCEPT !.raised = FALSE, !.ret = FALSE, !.log = "error"]
    ELSE outcome

\* update_excel_with_sap_data(df, EXCEL_FILE_PATH, SHEET_NAME, date_columns,
\* none_df) on the workbook file wb
UpdateExcel(df, none_df, date_columns, wb, SHEET_NAME, loads, natRaises, styleRaises, saves) ==
    Caught(UpdateExcelBody(df, none_df, date_columns, wb, SHEET_NAME, loads, natRaises,
                           styleRaises, saves))

-----------------------------------------------------------------------------
\* update_excel_with_sap_data on small tables and workbooks

MaxExcelRows == 2

ExcelRowInputs ==
    {<<StrV(NewYearMDY), StrV(Ten), Int64V(10)>>,
     <<StrV(Total), StrV(Apple), Int64V(0)>>,
     <<StrV(NewYear), StrV(<<"1", ".", "5">>), NaN>>}

ExcelTableInputs ==
    {Frame(<<StrV(Date), StrV(Product), StrV(Qty)>>, [k \in 1..Len(rows) |-> IntV(k - 1)], rows) :
        rows \in SeqsUpTo(ExcelRowInputs, MaxExcelRows)}

\* what the target sheet held before: three rows of one cell
OldRows ==
    <<<<Cell(StrV(Product), "Normal")>>, <<Cell(StrV(Kiwi), "Normal")>>,
      <<Cell(StrV(Banana), "Normal")>>>>

OtherRows == <<<<Cell(StrV(Unknown), "Normal"), Cell(IntV(7), "Normal")>>>>

WorkbookInputs ==
    LET Data(rows) == Sheet("Data", rows)
        Other == Sheet("Other", OtherRows)
    IN {Workbook(sheets, named) :
           sheets \in {<<Other>>} \cup
                      UNION {{<<Data(rows)>>, <<Data(rows), Other>>, <<Other, Data(rows)>>} :
                                rows \in {<< >>, OldRows}},
           named \in {{"Normal"}, {"Normal", "mmddyyyy"}}}

ExcelInputs ==
    [df : {SomeDf(t) : t \in ExcelTableInputs} \cup {NoneDf},
     none_df : {NoneDf, SomeDf(Frame(<<StrV(Date), StrV(Product), StrV(Qty)>>, << >>, << >>))},
     date_columns : {<< >>, <<Date>>, <<Unknown>>},
     workbook : WorkbookInputs,
     SHEET_NAME : {"Data"},
     loads : BOOLEAN,
     saves : {"ok", "refused", "broken"}]

InitExcel ==
    /\ xlIn \in ExcelInputs
    /\ xlOut = NotCalled("none")
    /\ ExtractAtRest
    /\ FormatAtRest
    /\ PrepAtRest
    /\ UtilsAtRest
    /\ RunsAtRest

CallUpdateExcel ==
    /\ ~xlOut.called
    /\ \E natRaises \in BOOLEAN, styleRaises \in BOOLEAN :
           xlOut' = Returned(UpdateExcel(xlIn.df, xlIn.none_df, xlIn.date_columns, xlIn.workbook,
                                         xlIn.SHEET_NAME, xlIn.loads, natRaises, styleRaises,
                                         xlIn.saves))
    /\ UNCHANGED <<xlIn, extractVars, formatVars, prepVars, outsideTables>>

NextExcel == CallUpdateExcel

SpecExcel == InitExcel /\ [][NextExcel]_vars

\* the sheets of the workbook other than the one titled name, in order
OtherSheets(wb, name) == SelectSeq(wb.sheets, LAMBDA sh : sh.title # name)

\* the sheets of the workbook titled name
SheetsTitled(wb, name) == SelectSeq(wb.sheets, LAMBDA sh : sh.title = name)

\* the table the call was given to write
GivenTable == IF xlIn.df.none THEN xlIn.none_df.df ELSE xlIn.df.df

\* the cell value w is the table value v, as it was or read as the number or
\* the date (NaT if it is none) that the text v stands for
WrittenFrom(v, w) ==
    \/ w = v
    \/ v.t = "str" /\ IsNumber(w) /\ IsNumber(ParseNumber(v.s)) /\ SameValue(w, ParseNumber(v.s))
    \/ v.t = "str" /\ w.t = "date" /\ ~ParseDate(v.s).raised /\ w = DateV(ParseDate(v.s).val)
    \/ v.t = "str" /\ w = NaN /\ ParseDate(v.s).raised

\* C20: after a successful update_excel_with_sap_data the sheets other than
\* the target are the same sheets with the same cells, in the same order; the
\* workbook has the target sheet exactly once, created if it was absent; its
\* rows are one header row with the table's column names and then the table's
\* rows in order, with nothing of what the sheet held before
C20_OnlyTargetSheetRewritten ==
    (xlOut.called /\ xlOut.val.ret) =>
        LET before == xlIn.workbook
            after == xlOut.val.workbook
            name == xlIn.SHEET_NAME
            table == GivenTable
            target == SheetsTitled(after, name)
        IN /\ OtherSheets(after, name) = OtherSheets(before, name)
           /\ Len(after.sheets) = Len(OtherSheets(before, name)) + 1
           /\ Len(target) = 1
           /\ Len(target[1].rows) = Len(table.data) + 1
           /\ \A c \in 1..Len(table.columns) :
                  /\ Len(target[1].rows[1]) = Len(table.columns)
                  /\ target[1].rows[1][c].value = table.columns[c]
           /\ \A r \in 1..Len(table.data) :
                  /\ Len(target[1].rows[r + 1]) = Len(table.columns)
                  /\ \A c \in 1..Len(table.columns) :
                         WrittenFrom(table.data[r][c], target[1].rows[r + 1][c].value)

\* a successful call on a workbook whose target sheet held more rows than the
\* table has, next to another sheet
C20_Witness ==
    /\ xlOut.called
    /\ xlOut.val.ret
    /\ Len(SheetsTitled(xlIn.workbook, xlIn.SHEET_NAME)) = 1
    /\ SheetsTitled(xlIn.workbook, xlIn.SHEET_NAME)[1].rows = OldRows
    /\ Len(OtherSheets(xlIn.workbook, xlIn.SHEET_NAME)) = 1
    /\ Len(GivenTable.data) = 1

\* a successful call on a workbook that had no target sheet
C20_CreatedWitness ==
    /\ xlOut.called
    /\ xlOut.val.ret
    /\ Len(SheetsTitled(xlIn.workbook, xlIn.SHEET_NAME)) = 0
    /\ Len(SheetsTitled(xlOut.val.workbook, xlIn.SHEET_NAME)) = 1

\* the rows of the target sheet in the workbook
TargetRows(wb) == SheetsTitled(wb, xlIn.SHEET_NAME)[1].rows

\* C21: update_excel_with_sap_data lets no exception out and returns a
\* boolean; a call that cannot load the workbook or cannot save it returns
\* False; without a table and without a fallback it returns False and never
\* calls load_workbook; without a table but with a fallback a successful call
\* wrote the fallback's header; True is returned only after wb.save completed
C21_FaultsGiveFalse ==
    xlOut.called =>
        /\ ~xlOut.val.raised
        /\ xlOut.val.ret \in BOOLEAN
        /\ (~xlIn.loads \/ xlIn.saves # "ok") => ~xlOut.val.ret
        /\ (xlIn.df.none /\ xlIn.none_df.none) => (~xlOut.val.ret /\ ~xlOut.val.opened)
        /\ (xlIn.df.none /\ ~xlIn.none_df.none /\ xlOut.val.ret) =>
               /\ Len(TargetRows(xlOut.val.workbook)) = Len(xlIn.none_df.df.data) + 1
               /\ [c \in 1..Len(xlIn.none_df.df.columns) |->
                      TargetRows(xlOut.val.workbook)[1][c].value] = xlIn.none_df.df.columns
        /\ xlOut.val.ret => xlOut.val.saved

\* a call that met a fault and returned False
C21_Witness ==
    /\ xlOut.called
    /\ ~xlOut.val.ret
    /\ ~xlIn.df.none
    /\ xlOut.val.opened
    /\ xlOut.val.log = "error"

\* a call without a table that wrote the fallback table
C21_FallbackWitness ==
    /\ xlOut.called
    /\ xlOut.val.ret
    /\ xlIn.df.none
    /\ ~xlIn.none_df.none

\* C22: a call that returns False leaves the workbook file as it was, and a
\* call that returns True has saved the target sheet with its header and all
\* the rows of the table
C22_FileUnchangedOrComplete ==
    xlOut.called =>
        /\ ~xlOut.val.ret => xlOut.val.workbook = xlIn.workbook
        /\ xlOut.val.ret => Len(TargetRows(xlOut.val.workbook)) = Len(GivenTable.data) + 1

\* C22, what the code keeps: a call that returns False leaves the workbook
\* file as it was unless the fault came while wb.save was writing the file
C22_UnchangedUnlessSaveBroke ==
    (xlOut.called /\ ~xlOut.val.ret /\ xlIn.saves # "broken") =>
        xlOut.val.workbook = xlIn.workbook

\* a call whose save broke off, after which the file is not what it was
C22_BrokenSaveWitness ==
    /\ xlOut.called
    /\ ~xlOut.val.ret
    /\ xlOut.val.workbook # xlIn.workbook

----------------------------------------------------------------------------
(* Claims about the stages of the preprocessing (SpecPrep) *)

\* the call got past the returns for a missing or empty table
PastEarly == ppOut.called /\ ~ppOut.val.early

\* the column has a fill rule
HasFillRule(name) ==
    \E k \in 1..Len(ppIn.cfg.missing_value_fill) : ppIn.cfg.missing_value_fill[k].col = name

\* the fill value configured for the column
FillRuleValue(name) ==
    ppIn.cfg.missing_value_fill[CHOOSE k \in 1..Len(ppIn.cfg.missing_value_fill) :
                                    ppIn.cfg.missing_value_fill[k].col = name].value

\* the cell of row r of the column in the table entering preprocessing
Entering(name, r) == ppIn.df.df.data[r][ColAt(ppIn.df.df, name)]

\* null or the empty string
Missing(v) == v = NaN \/ v = StrV(EmptyStr)

\* the cells of the columns without a fill rule after the missing-value
\* stage: null if they were empty, unchanged if not
UnfilledColumnsAfterStage ==
    \A c \in 1..Len(ppOut.val.filled.columns), r \in 1..Len(ppOut.val.filled.data) :
        ~HasFillRule(ppOut.val.filled.columns[c].s) =>
            ppOut.val.filled.data[r][c] =
                IF ppOut.val.replaced.data[r][c] = StrV(EmptyStr) THEN NaN
                ELSE ppOut.val.replaced.data[r][c]

\* C24: after the missing-value stage, in a column without a fill rule an
\* empty cell is null and every other cell is as the stage found it; in a
\* column with a fill rule every cell that was null or empty in the table
\* entering preprocessing holds the fill value, with or without a replacement
\* rule on the column, and the cells holding a value are as the stage found
\* them
C24_MissingCellsFilled ==
    PastEarly =>
        /\ UnfilledColumnsAfterStage
        /\ \A c \in 1..Len(ppOut.val.filled.columns), r \in 1..Len(ppOut.val.filled.data) :
               LET name == ppOut.val.filled.columns[c].s
               IN HasFillRule(name) =>
                      /\ Missing(Entering(name, r)) =>
                             ppOut.val.filled.data[r][c] = FillRuleValue(name)
                      /\ ~Missing(ppOut.val.replaced.data[r][c]) =>
                             ppOut.val.filled.data[r][c] = ppOut.val.replaced.data[r][c]

\* C24, what the code keeps: in a column with a fill rule the cells that are
\* null or empty when the stage starts, after the replacements, hold the fill
\* value afterwards
C24_MissingAfterReplacementFilled ==
    PastEarly =>
        /\ UnfilledColumnsAfterStage
        /\ \A c \in 1..Len(ppOut.val.filled.columns), r \in 1..Len(ppOut.val.filled.data) :
               HasFillRule(ppOut.val.filled.columns[c].s) =>
                   ppOut.val.filled.data[r][c] =
                       IF Missing(ppOut.val.replaced.data[r][c])
                       THEN FillRuleValue(ppOut.val.filled.columns[c].s)
                       ELSE ppOut.val.replaced.data[r][c]

\* a null cell of a column with a replacement rule and a fill rule
C24_NullUnderReplacement ==
    /\ PastEarly
    /\ \E c \in 1..Len(ppOut.val.filled.columns), r \in 1..Len(ppOut.val.filled.data) :
           /\ HasFillRule(ppOut.val.filled.columns[c].s)
           /\ Entering(ppOut.val.filled.columns[c].s, r) = NaN
           /\ ppOut.val.filled.data[r][c] = StrV(<<"n", "a", "n">>)

\* the type is none of date, int, float, str and the column is in the table
UnsupportedItem(item) ==
    /\ HasColumn(ppOut.val.filled, item.col)
    /\ item.type \notin {"date", "int", "float", "str"}

\* C25: a column whose configured type is none of date, int, float and str
\* has after the coercion stage the cells it had before it, the null ones
\* too, and the unsupported type is logged with that column
C25_UnsupportedTypeLeavesColumn ==
    Staged =>
        \A k \in 1..Len(ppIn.cfg.dtype_mapping) :
            UnsupportedItem(ppIn.cfg.dtype_mapping[k]) =>
                /\ ColumnOf(ppOut.val.coerced, ppIn.cfg.dtype_mapping[k].col) =
                       ColumnOf(ppOut.val.filled, ppIn.cfg.dtype_mapping[k].col)
                /\ \E j \in 1..Len(ppOut.val.unsupported) :
                       ppOut.val.unsupported[j] = ppIn.cfg.dtype_mapping[k]

\* C25, what the code keeps: the light variant leaves the column and logs it;
\* the label variant leaves the cells that hold a value
C25_LightLeavesColumn ==
    Staged =>
        \A k \in 1..Len(ppIn.cfg.dtype_mapping) :
            UnsupportedItem(ppIn.cfg.dtype_mapping[k]) =>
                LET before == ColumnOf(ppOut.val.filled, ppIn.cfg.dtype_mapping[k].col)
                    after == ColumnOf(ppOut.val.coerced, ppIn.cfg.dtype_mapping[k].col)
                IN IF ppIn.variant = "alv"
                   THEN /\ after = before
                        /\ \E j \in 1..Len(ppOut.val.unsupported) :
                               ppOut.val.unsupported[j] = ppIn.cfg.dtype_mapping[k]
                   ELSE \A r \in 1..Len(before) : before[r] # NaN => after[r] = before[r]

\* the label variant on a column of unsupported type with a null cell
C25_NullOfUnsupportedFilled ==
    /\ Staged
    /\ ppIn.variant = "label"
    /\ \E k \in 1..Len(ppIn.cfg.dtype_mapping) :
           /\ UnsupportedItem(ppIn.cfg.dtype_mapping[k])
           /\ \E r \in 1..Len(ppOut.val.filled.data) :
                  /\ ColumnOf(ppOut.val.filled, ppIn.cfg.dtype_mapping[k].col)[r] = NaN
                  /\ ColumnOf(ppOut.val.coerced, ppIn.cfg.dtype_mapping[k].col)[r] = StrV(EmptyStr)

\* the column is to be an int and holds the text of a number that is not whole
IntFaults(item) ==
    /\ item.type = "int"
    /\ HasColumn(ppOut.val.filled, item.col)
    /\ \E r \in 1..Len(ppOut.val.filled.data) :
           LET v == ColumnOf(ppOut.val.filled, item.col)[r]
           IN v.t = "str" /\ IsNumber(ParseNumber(v.s)) /\ ~IsWhole(ParseNumber(v.s))

\* C26: a fault in the coercion of one column does not end the call with an
\* exception, and that column has afterwards the cells it had before the
\* coercion stage
C26_CoercionFaultContained ==
    PastEarly =>
        /\ ~ppOut.val.raised
        /\ \A k \in 1..Len(ppIn.cfg.dtype_mapping) :
               IntFaults(ppIn.cfg.dtype_mapping[k]) =>
                   ColumnOf(ppOut.val.coerced, ppIn.cfg.dtype_mapping[k].col) =
                       ColumnOf(ppOut.val.filled, ppIn.cfg.dtype_mapping[k].col)

\* C26, what the code keeps: the label variant never ends with an exception
C26_LabelRunGoesOn ==
    (PastEarly /\ ppIn.variant = "label") => ~ppOut.val.raised

\* the light variant left by the exception of an int column
C26_LightRaises ==
    /\ PastEarly
    /\ ppIn.variant = "alv"
    /\ ppOut.val.raised
    /\ \E k \in 1..Len(ppIn.cfg.dtype_mapping) : IntFaults(ppIn.cfg.dtype_mapping[k])

\* the label variant with the int column left as numbers
C26_LabelHalfConverted ==
    /\ PastEarly
    /\ ppIn.variant = "label"
    /\ \E k \in 1..Len(ppIn.cfg.dtype_mapping) :
           /\ IntFaults(ppIn.cfg.dtype_mapping[k])
           /\ \E r \in 1..Len(ppOut.val.coerced.data) :
                  ColumnOf(ppOut.val.coerced, ppIn.cfg.dtype_mapping[k].col)[r].t = "float"

\* no two of the rows are the same
NoTwoSame(rows) == \A i \in 1..Len(rows), j \in 1..Len(rows) : i # j => rows[i] # rows[j]

\* the index is 0..n-1
Contiguous(frame) == frame.index = [k \in 1..Len(frame.data) |-> IntV(k - 1)]

C27_LightWitness ==
    /\ Staged
    /\ ppIn.variant = "alv"
    /\ Len(ppOut.val.ret.data) = 2
    /\ ppOut.val.ret.data[1] = ppOut.val.ret.data[2]

----------------------------------------------------------------------------
(* get_sap_window_label_list over windows and user areas (SpecWindow) *)

\* what get_sap_window_label_list returns: a table ("df"), None, or the
\* tuple (None, None) of line 129 ("pair"); and the level of its last log line
Listed(kind, frame, level) == [kind |-> kind, df |-> frame, log |-> level]

\* line 120: any("lbl" in child.Id for child in usr_area.Children)
AnyLabel(children) == \E k \in 1..Len(children) : Contains(children[k].Id, lbl)

\* lines 127-129: return None, None
ReturnNoneNone(level) == Listed("pair", NoDf, level)

\* lines 105-129. inp.window: reading the window and the session details
\* (lines 106-112) works ("ok") or raises; inp.usr: findById("wnd[0]/usr")
\* works or raises
GetSapWindowLabelList(inp) ==
    IF inp.window # "ok" \/ inp.usr # "ok" THEN ReturnNoneNone("error")
    ELSE IF ~AnyLabel(inp.children) THEN Listed("None", NoDf, "warning")
    ELSE LET df_labels == ExtractLabels([usr |-> inp.usr, children |-> inp.children])
         IN IF df_labels.none THEN Listed("None", NoDf, df_labels.log)
            ELSE Listed("df", df_labels.df, df_labels.log)

WindowInputs ==
    {[window |-> w, usr |-> u.usr, children |-> u.children] :
        w \in {"ok", "raises"}, u \in UsrInputs}

InitWindow ==
    /\ exIn \in WindowInputs
    /\ exOut = NotCalled("none")
    /\ FormatAtRest
    /\ PrepAtRest
    /\ ExcelAtRest
    /\ UtilsAtRest
    /\ RunsAtRest

CallGetSapWindowLabelList ==
    /\ ~exOut.called
    /\ exOut' = Returned(GetSapWindowLabelList(exIn))
    /\ UNCHANGED <<exIn, formatVars, prepVars, excelVars, outsideTables>>

NextWindow == CallGetSapWindowLabelList

SpecWindow == InitWindow /\ [][NextWindow]_vars

\* reading the window details or the user area raised
WindowFault == exIn.window # "ok" \/ exIn.usr # "ok"

\* C28: get_sap_window_label_list returns a table or None; after a fault
\* while reading the window details or the user area, and when the user area
\* has no label element, it returns None
C28_TableOrNone ==
    exOut.called =>
        /\ exOut.val.kind \in {"df", "None"}
        /\ (WindowFault \/ ~AnyLabel(exIn.children)) => exOut.val.kind = "None"

\* C28, what the code keeps: without a fault of its own reads the function
\* returns a table or None, and None when there is no label element or when
\* extract_labels returned None
C28_NoneWithoutWindowFault ==
    (exOut.called /\ ~WindowFault) =>
        /\ exOut.val.kind \in {"df", "None"}
        /\ ~AnyLabel(exIn.children) => exOut.val.kind = "None"
        /\ ExtractLabels([usr |-> exIn.usr, children |-> exIn.children]).none =>
               exOut.val.kind = "None"

\* a fault while reading the window details, answered with (None, None)
C28_PairReturned ==
    /\ exOut.called
    /\ exIn.window = "raises"
    /\ exOut.val.kind = "pair"

----------------------------------------------------------------------------
(* utils/sap_alv_extractor.py: extract_sap_alv_grid, step by step (SpecGrid) *)

\* most rows of a grid
MaxGridRows == 3

\* what the steps of extract_sap_alv_grid and of main leave alone
outsideRuns == <<idleVars, listVars, brokerVars, scanVars, tableVars>>

\* a grid: its RowCount and VisibleRowCount, whether it has a ColumnOrder,
\* and the row (1-based, 0 for none) at which GetCellValue raises
GridInputs ==
    {[RowCount |-> rc, VisibleRowCount |-> vis, has_ColumnOrder |-> co, faultAt |-> f] :
        rc \in 0..MaxGridRows, vis \in 0..(MaxGridRows + 1), co \in BOOLEAN,
        f \in 0..MaxGridRows}

\* the value returned: a table with the rows (ok), or the empty table of an
\* error path
GridTable(rows) == [ok |-> TRUE, rows |-> rows]
EmptyGridTable == [ok |-> FALSE, rows |-> << >>]

\* range(a, b) as a sequence
Range(a, b) == [k \in 1..(IF b > a THEN b - a ELSE 0) |-> a + k - 1]

\* min(a, b)
Min(a, b) == IF a < b THEN a ELSE b

InitGrid ==
    /\ alv \in {[pc |-> "start", grid |-> g, start_row |-> 0, table_data |-> << >>,
                 FirstVisibleRow |-> 0, ret |-> EmptyGridTable] : g \in GridInputs}
    /\ run = [pc |-> "rest"]
    /\ TablesAtRest
    /\ UtilsAtRest

\* lines 16-48: the returns before the loop, or the start of the loop
GridStart ==
    /\ alv.pc = "start"
    /\ alv' = IF alv.grid.RowCount = 0
              THEN [alv EXCEPT !.pc = "done",
                               !.ret = IF alv.grid.has_ColumnOrder THEN GridTable(<< >>)
                                       ELSE EmptyGridTable]
              ELSE IF ~alv.grid.has_ColumnOrder
              THEN [alv EXCEPT !.pc = "done", !.ret = EmptyGridTable]
              ELSE [alv EXCEPT !.pc = "loop", !.start_row = 0, !.table_data = << >>]
    /\ UNCHANGED <<run, outsideRuns>>

\* lines 50-60: one pass of the while loop
GridBatch ==
    /\ alv.pc = "loop"
    /\ alv.start_row < alv.grid.RowCount
    /\ LET visible_rows == alv.grid.VisibleRowCount
           row_count == alv.grid.RowCount
           batch_data == Range(alv.start_row, Min(alv.start_row + visible_rows, row_count))
           next_row == alv.start_row + visible_rows
       IN alv' = IF \E k \in 1..Len(batch_data) : batch_data[k] + 1 = alv.grid.faultAt
                 THEN [alv EXCEPT !.pc = "done", !.ret = EmptyGridTable]
                 ELSE [alv EXCEPT !.table_data = alv.table_data \o batch_data,
                                  !.start_row = next_row,
                                  !.FirstVisibleRow = IF next_row < row_count THEN next_row
                                                      ELSE alv.FirstVisibleRow]
    /\ UNCHANGED <<run, outsideRuns>>

\* line 62: the loop is over
GridReturn ==
    /\ alv.pc = "loop"
    /\ ~(alv.start_row < alv.grid.RowCount)
    /\ alv' = [alv EXCEPT !.pc = "done", !.ret = GridTable(alv.table_data)]
    /\ UNCHANGED <<run, outsideRuns>>

NextGrid == GridStart \/ GridBatch \/ GridReturn

SpecGrid == InitGrid /\ [][NextGrid]_vars

\* the call goes on as long as it has a step to take
FairGrid == SpecGrid /\ WF_vars(NextGrid)

\* the rows 0..RowCount-1 of the grid, each once, in ascending order
EveryGridRowOnce == alv.ret.rows = [k \in 1..alv.grid.RowCount |-> k - 1]

\* C29: extract_sap_alv_grid returns for every grid, and when it succeeds the
\* table holds the rows 0..RowCount-1 of the grid, each once, in ascending
\* order
C29_ReturnsEveryRowOnce ==
    /\ <>(alv.pc = "done")
    /\ []((alv.pc = "done" /\ alv.ret.ok) => EveryGridRowOnce)

\* C29, what the code keeps: a table returned holds each row once, in order
C29_RowsOnceInOrder == (alv.pc = "done" /\ alv.ret.ok) => EveryGridRowOnce

\* C29, what the code keeps: it returns when VisibleRowCount is positive
C29_ReturnsWhenRowsVisible == (alv.grid.VisibleRowCount > 0) => <>(alv.pc = "done")

\* the loop with rows to read and a VisibleRowCount of 0
C29_LoopStands ==
    /\ alv.pc = "loop"
    /\ alv.grid.RowCount > 0
    /\ alv.grid.VisibleRowCount = 0

\* a grid read in more than one batch, the last one short
C29_BatchesWitness ==
    /\ alv.pc = "done"
    /\ alv.ret.ok
    /\ alv.grid.RowCount = 3
    /\ alv.grid.VisibleRowCount = 2
    /\ alv.FirstVisibleRow = 2

----------------------------------------------------------------------------
(* transactions/transaction_template.py: main, run_sap_transaction and
   dynamic_wait, step by step (SpecMain) *)

\* dynamic_wait's defaults, in seconds
timeout == 30
interval == 1

\* what the run meets: whether connect_to_idle_sap gives a session, whether
\* entering the transaction (lines 63-83) or a post-action (lines 99-107)
\* raises, what the status bar says once it is no longer busy ("data", the
\* "No data was selected" message, or unreadable), and what the three table
\* functions give on the window that is then open
MainInputs ==
    [connected : BOOLEAN, enter : {"ok", "raises"}, post : {"ok", "raises"},
     status : {"data", "no_data", "unreadable"},
     labels : {"df", "None", "pair"}, formatted : {"df", "None"},
     cleaned : {"rows", "empty"}]

\* line 34: time.sleep(interval)
Sleep(elapsed) == elapsed + interval

\* lines 88-90 without the raise of line 89
GoesOnAfterWait(completed) == "status"

\* lines 88-90: after dynamic_wait returned
AfterWait(completed) == IF completed THEN "status" ELSE "timed_out"

\* check_sap_status, sap_status_bar_check.py lines 19-26
check_sap_status(status) == status = "data"

\* a step of the run: what it did is added to the record
Does(r, what) == [r EXCEPT !.did = Append(r.did, what)]

\* the run is over: main returned, after the exception named (or "none")
Ends(r, error) == [r EXCEPT !.pc = "done", !.error = error]

InitMain ==
    /\ run \in {[pc |-> "start", env |-> e, elapsed |-> 0, polls |-> 0, waited |-> "pending",
                 did |-> << >>, error |-> "none"] : e \in MainInputs}
    /\ alv = [pc |-> "rest"]
    /\ TablesAtRest
    /\ UtilsAtRest

\* main, lines 124-127
MainConnect ==
    /\ run.pc = "start"
    /\ run' = IF run.env.connected THEN [run EXCEPT !.pc = "enter"] ELSE Ends(run, "none")
    /\ UNCHANGED <<alv, outsideRuns>>

\* run_sap_transaction, lines 61-87: the transaction is started, the fields
\* are filled and Execute is pressed; an exception is logged at line 110,
\* raised again and caught by main at line 180
TxEnter ==
    /\ run.pc = "enter"
    /\ run' = IF run.env.enter = "raises" THEN Ends(run, "Exception")
              ELSE [Does(run, "press") EXCEPT !.pc = "wait", !.elapsed = 0]
    /\ UNCHANGED <<alv, outsideRuns>>

\* dynamic_wait, lines 31-34: one pass of the loop. The status bar reads
\* Busy, or something else, or reading it raises
WaitPoll ==
    /\ run.pc = "wait"
    /\ run.elapsed < timeout
    /\ \E sbar \in {"Busy", "other", "raises"} :
           run' = IF sbar = "raises"
                  THEN [Ends(run, "Exception") EXCEPT !.polls = run.polls + 1, !.waited = "raised"]
                  ELSE IF sbar = "other"
                  THEN [run EXCEPT !.polls = run.polls + 1, !.waited = "True",
                                   !.pc = AfterWait(TRUE)]
                  ELSE [run EXCEPT !.polls = run.polls + 1, !.elapsed = Sleep(run.elapsed)]
    /\ UNCHANGED <<alv, outsideRuns>>

\* dynamic_wait, line 35: return False
WaitGivesUp ==
    /\ run.pc = "wait"
    /\ ~(run.elapsed < timeout)
    /\ run' = [run EXCEPT !.waited = "False", !.pc = AfterWait(FALSE)]
    /\ UNCHANGED <<alv, outsideRuns>>

\* lines 89, 94-96, 109-111 and 178-179: SAPExecutionError is raised, logged
\* and raised again twice, and main logs it
TxTimedOut ==
    /\ run.pc = "timed_out"
    /\ run' = Ends(run, "SAPExecutionError")
    /\ UNCHANGED <<alv, outsideRuns>>

\* lines 90-93: the status check; without data the fallback table is written
\* and run_sap_transaction returns
TxStatus ==
    /\ run.pc = "status"
    /\ run' = IF check_sap_status(run.env.status)
              THEN [Does(run, "status_check") EXCEPT !.pc = "post"]
              ELSE [Does(Does(run, "status_check"), "fallback_write") EXCEPT !.pc = "extract"]
    /\ UNCHANGED <<alv, outsideRuns>>

\* lines 98-107
TxPost ==
    /\ run.pc = "post"
    /\ run' = IF run.env.post = "raises" THEN Ends(Does(run, "post_action"), "Exception")
              ELSE [Does(run, "post_action") EXCEPT !.pc = "extract"]
    /\ UNCHANGED <<alv, outsideRuns>>

\* main, lines 153-156: only None ends the run here
MainExtract ==
    /\ run.pc = "extract"
    /\ run' = IF run.env.labels = "None" THEN Ends(Does(run, "extract"), "none")
              ELSE [Does(run, "extract") EXCEPT !.pc = "format"]
    /\ UNCHANGED <<alv, outsideRuns>>

\* main, lines 159-162: the pair (None, None) is no table, and formatting it
\* gives None
MainFormat ==
    /\ run.pc = "format"
    /\ run' = IF run.env.labels = "pair" \/ run.env.formatted = "None"
              THEN Ends(Does(run, "format"), "none")
              ELSE [Does(run, "format") EXCEPT !.pc = "preprocess"]
    /\ UNCHANGED <<alv, outsideRuns>>

\* main, lines 165-168
MainPreprocess ==
    /\ run.pc = "preprocess"
    /\ run' = IF run.env.cleaned = "empty" THEN Ends(Does(run, "preprocess"), "none")
              ELSE [Does(run, "preprocess") EXCEPT !.pc = "write"]
    /\ UNCHANGED <<alv, outsideRuns>>

\* main, lines 171-174
MainWrite ==
    /\ run.pc = "write"
    /\ run' = Ends(Does(run, "write"), "none")
    /\ UNCHANGED <<alv, outsideRuns>>

NextMain ==
    \/ MainConnect
    \/ TxEnter
    \/ WaitPoll
    \/ WaitGivesUp
    \/ TxTimedOut
    \/ TxStatus
    \/ TxPost
    \/ MainExtract
    \/ MainFormat
    \/ MainPreprocess
    \/ MainWrite

SpecMain == InitMain /\ [][NextMain]_vars

\* the run goes on as long as it has a step to take
FairMain == SpecMain /\ WF_vars(NextMain)

\* the run did this
Did(what) == \E k \in 1..Len(run.did) : run.did[k] = what

\* how often the run did this
TimesDid(what) == Cardinality({k \in 1..Len(run.did) : run.did[k] = what})

\* what holds of dynamic_wait and of the run after it at every moment
WaitBounded ==
    /\ run.waited = "True" => (run.elapsed < timeout /\ run.elapsed = (run.polls - 1) * interval)
    /\ run.waited = "False" => (run.elapsed >= timeout /\ run.polls * interval = timeout)
    /\ run.waited = "pending" => run.elapsed = run.polls * interval
    /\ run.waited = "False" =>
           /\ ~Did("status_check")
           /\ ~Did("fallback_write")
           /\ ~Did("post_action")
           /\ run.pc \in {"timed_out", "done"}
           /\ run.pc = "done" => run.error = "SAPExecutionError"

\* C23: dynamic_wait ends; it polls every interval seconds, returns True at
\* the first poll that finds the status bar no longer Busy and False once
\* timeout seconds have passed; after False run_sap_transaction raises
\* SAPExecutionError and does no status check, no fallback write and no
\* post-action
C23_WaitBoundedAndTimeoutRaised ==
    /\ (run.pc = "wait") ~> (run.pc # "wait")
    /\ []WaitBounded

\* a run whose status bar read Busy until the timeout
C23_Witness ==
    /\ run.pc = "done"
    /\ run.waited = "False"
    /\ run.error = "SAPExecutionError"
    /\ run.polls * interval = timeout

\* C30: the sheet is written at most once in a run, and after the fallback
\* write of run_sap_transaction the run does no extraction, formatting,
\* preprocessing or write
C30_OneWritePerRun ==
    /\ TimesDid("fallback_write") + TimesDid("write") <= 1
    /\ Did("fallback_write") =>
           (~Did("extract") /\ ~Did("format") /\ ~Did("preprocess") /\ ~Did("write"))

\* C30, what the code keeps: each of the two writes happens at most once, and
\* a run whose transaction returned data writes at most once
C30_OneWriteWithData ==
    /\ TimesDid("fallback_write") <= 1
    /\ TimesDid("write") <= 1
    /\ ~Did("fallback_write") => TimesDid("write") + TimesDid("fallback_write") <= 1

\* a run that wrote the fallback table and then the table of the labels
C30_WrittenTwice ==
    /\ run.pc = "done"
    /\ Did("fallback_write")
    /\ Did("write")

=============================================================================
